---------------------------- MODULE Spec2Model ----------------------------
(***************************************************************************)
(* Conversation-state engine of R2AIBridge-CLI (lib/analyzer.py,           *)
(* lib/schema.py): the message log, _sanitize_messages_for_tools,          *)
(* _trim_messages, validate_args and the chat loop.                        *)
(*                                                                         *)
(* Text (message content, ids, names) is a sequence of one-character       *)
(* strings, so that str.strip() and len() are computed, not assumed.       *)
(***************************************************************************)
EXTENDS Integers, Sequences, FiniteSets, TLC

(***************************************************************************)
(* Text helpers                                                            *)
(***************************************************************************)
IsSpace(c) == c \in {" ", "\n"}

RECURSIVE LStrip(_)
LStrip(s) == IF s = <<>> THEN <<>>
             ELSE IF IsSpace(Head(s)) THEN LStrip(Tail(s)) ELSE s

RECURSIVE RStrip(_)
RStrip(s) == IF s = <<>> THEN <<>>
             ELSE IF IsSpace(s[Len(s)]) THEN RStrip(SubSeq(s, 1, Len(s) - 1)) ELSE s

\* str(x or "").strip()
Strip(s) == RStrip(LStrip(s))

Blank(s) == Strip(s) = <<>>

\* x in list
InSeq(x, s) == \E i \in 1..Len(s) : s[i] = x

RECURSIVE SumSeq(_)
SumSeq(s) == IF s = <<>> THEN 0 ELSE Head(s) + SumSeq(Tail(s))

RECURSIVE FilterSeq(_, _)
\* the subsequence of s at the positions in keep
FilterSeq(s, keep) ==
    IF s = <<>> THEN <<>>
    ELSE LET n == Len(s)
             init == FilterSeq(SubSeq(s, 1, n - 1), keep)
         IN  IF n \in keep THEN Append(init, s[n]) ELSE init

(***************************************************************************)
(* Messages.  A message is a dict; an absent key and an empty value are    *)
(* the same to every reader in the code (`x.get(k, "") or ""`,             *)
(* `isinstance(tcs, list) and tcs`), so every record carries all keys.     *)
(* meta is the set of underscore-prefixed keys the dict carries.           *)
(***************************************************************************)
Msg(role, content, reasoning, tcs, tcid) ==
    [role |-> role, content |-> content, reasoning_content |-> reasoning,
     tool_calls |-> tcs, tool_call_id |-> tcid, meta |-> {}]

SystemMsg(content) == Msg("system", content, <<>>, <<>>, <<>>)
UserMsg(content) == Msg("user", content, <<>>, <<>>, <<>>)
AssistantMsg(content, reasoning, tcs) == Msg("assistant", content, reasoning, tcs, <<>>)
ToolMsg(tcid, content) == Msg("tool", content, <<>>, <<>>, tcid)

\* the arguments text of a tool call: what json.loads makes of it (kind, and
\* the dict when it is an object) and its length
ArgText(kind, obj, chars) == [kind |-> kind, obj |-> obj, chars |-> chars]
EmptyArgs == ArgText("empty", <<>>, 0)
ObjArgs(obj) == ArgText("object", obj, 2 + Len(obj))
InvalidJson == ArgText("invalid", <<>>, 1)
NonObjectJson == ArgText("nonobject", <<>>, 2)

\* one tool_calls entry: {"id":..., "function": {"name":..., "arguments":...}}
ToolCall(id, name, args) == [id |-> id, name |-> name, arguments |-> args]

\* f"fixup_{len(cleaned)}_{idx}"
FixupId(n, idx) == <<"f", "i", "x", "u", "p", "_", ToString(n), "_", ToString(idx)>>

(***************************************************************************)
(* _sanitize_messages_for_tools                                            *)
(***************************************************************************)
\* Tracked that computes a fabricated id without storing it in the entry
RECURSIVE TrackedNoWriteBack(_, _, _)
TrackedNoWriteBack(tcs, idx, ncleaned) ==
    IF idx > Len(tcs) THEN <<>>
    ELSE LET tc   == tcs[idx]
             name == Strip(tc.name)
             tid0 == Strip(tc.id)
             tid  == IF tid0 = <<>> /\ name # <<>> THEN FixupId(ncleaned, idx - 1) ELSE tid0
             rest == TrackedNoWriteBack(tcs, idx + 1, ncleaned)
         IN  IF tid = <<>> \/ name = <<>> THEN rest
             ELSE <<[tid |-> tid, tc |-> tc]>> \o rest

\* lines 595-607: the entries that are tracked, each with the id it is tracked
\* under (expected_ids) and the entry as stored (fixed_tcs; tc["id"] = tid
\* writes a fabricated id into the entry)
RECURSIVE Tracked(_, _, _)
Tracked(tcs, idx, ncleaned) ==
    IF idx > Len(tcs) THEN <<>>
    ELSE LET tc   == tcs[idx]
             name == Strip(tc.name)
             tid0 == Strip(tc.id)
             fab  == tid0 = <<>> /\ name # <<>>
             tid  == IF fab THEN FixupId(ncleaned, idx - 1) ELSE tid0
             tc2  == IF fab THEN [tc EXCEPT !.id = tid] ELSE tc
             rest == Tracked(tcs, idx + 1, ncleaned)
         IN  IF tid = <<>> \/ name = <<>> THEN rest
             ELSE <<[tid |-> tid, tc |-> tc2]>> \o rest

ExpectedIds(tracked) == [k \in 1..Len(tracked) |-> tracked[k].tid]

FixedTcs(tracked) == [k \in 1..Len(tracked) |-> tracked[k].tc]

\* lines 609-621: index just past the run of tool messages that starts at j
RECURSIVE RunEnd(_, _)
RunEnd(src, j) ==
    IF j <= Len(src) /\ src[j].role = "tool" THEN RunEnd(src, j + 1) ELSE j

\* lines 617-620: the tool messages of src[i+1 .. j-1] whose id is expected
MatchedTools(src, i, j, expected) ==
    FilterSeq(SubSeq(src, i + 1, j - 1),
              {k \in 1..(j - 1 - i) :
                  LET tci == Strip(src[i + k].tool_call_id)
                  IN  tci # <<>> /\ InSeq(tci, expected)})

Responded(toolMsgs) == {Strip(toolMsgs[k].tool_call_id) : k \in 1..Len(toolMsgs)}

\* FilteredTcs that leaves unanswered entries in place
FilteredTcsKeepAll(fixed, responded) == fixed

\* line 623
FilteredTcs(fixed, responded) ==
    FilterSeq(fixed, {k \in 1..Len(fixed) : Strip(fixed[k].id) \in responded})

\* SanitizeBlock that emits the tool messages ahead of the assistant message
SanitizeBlockToolsFirst(src, i, j, ncleaned) ==
    LET msg      == src[i]
        tracked  == Tracked(msg.tool_calls, 1, ncleaned)
        toolMsgs == MatchedTools(src, i, j, ExpectedIds(tracked))
        filtered == FilteredTcs(FixedTcs(tracked), Responded(toolMsgs))
        am_out   == [msg EXCEPT !.tool_calls = filtered]
    IN  IF filtered = <<>> /\ Blank(msg.content) /\ Blank(msg.reasoning_content)
        THEN <<>>
        ELSE toolMsgs \o <<am_out>>

\* lines 586-638: what one assistant message with tool_calls and the tool run
\* after it contribute to cleaned
SanitizeBlock(src, i, j, ncleaned) ==
    LET msg      == src[i]
        tracked  == Tracked(msg.tool_calls, 1, ncleaned)
        toolMsgs == MatchedTools(src, i, j, ExpectedIds(tracked))
        filtered == FilteredTcs(FixedTcs(tracked), Responded(toolMsgs))
        am_out   == [msg EXCEPT !.tool_calls = filtered]
    IN  IF filtered = <<>> /\ Blank(msg.content) /\ Blank(msg.reasoning_content)
        THEN <<>>
        ELSE <<am_out>> \o toolMsgs

RECURSIVE SanitizeFrom(_, _, _)
SanitizeFrom(src, i, cleaned) ==
    IF i > Len(src) THEN cleaned
    ELSE LET msg == src[i]
         IN  IF msg.role # "assistant"
             THEN SanitizeFrom(src, i + 1,
                               IF msg.role # "tool" THEN Append(cleaned, msg) ELSE cleaned)
             ELSE IF msg.tool_calls = <<>>
             THEN SanitizeFrom(src, i + 1, Append(cleaned, msg))
             ELSE LET j == RunEnd(src, i + 1)
                  IN  SanitizeFrom(src, j, cleaned \o SanitizeBlock(src, i, j, Len(cleaned)))

Sanitize(log) == SanitizeFrom(log, 1, <<>>)

(***************************************************************************)
(* _trim_messages                                                          *)
(***************************************************************************)
RECURSIVE TcsSize(_)
TcsSize(tcs) ==
    IF tcs = <<>> THEN 0
    ELSE 1 + Len(Head(tcs).id) + Len(Head(tcs).name) + Head(tcs).arguments.chars
         + TcsSize(Tail(tcs))

\* _msg_size: len(json.dumps(msg)): the lengths of the values plus the
\* punctuation of the dict (counted 1 per dict)
MsgSize(m) == 1 + Len(m.content) + Len(m.reasoning_content) + Len(m.tool_call_id)
              + TcsSize(m.tool_calls) + Cardinality(m.meta)

LogSize(log) == SumSeq([k \in 1..Len(log) |-> MsgSize(log[k])])

RECURSIVE DropLeadingTools(_)
DropLeadingTools(tail) ==
    IF tail # <<>> /\ Head(tail).role = "tool" THEN DropLeadingTools(Tail(tail)) ELSE tail

\* messages[-k:]
PyLast(s, k) ==
    IF k = 0 THEN s
    ELSE IF k > 0 THEN SubSeq(s, (IF Len(s) - k < 0 THEN 0 ELSE Len(s) - k) + 1, Len(s))
    ELSE SubSeq(s, (IF -k > Len(s) THEN Len(s) ELSE -k) + 1, Len(s))

\* lines 359-366
CountPhase(log, M) ==
    IF Len(log) > M
    THEN <<log[1]>> \o DropLeadingTools(PyLast(log, M - 1))
    ELSE log

\* lines 391-414: rest cut into atomic blocks
RECURSIVE Blocks(_, _)
Blocks(rest, i) ==
    IF i > Len(rest) THEN <<>>
    ELSE IF rest[i].role = "assistant" /\ rest[i].tool_calls # <<>>
         THEN LET j == RunEnd(rest, i + 1)
              IN  <<SubSeq(rest, i, j - 1)>> \o Blocks(rest, j)
         ELSE <<<<rest[i]>>>> \o Blocks(rest, i + 1)

\* lines 416-425: blocks kept, walking from the most recent one backward
RECURSIVE KeepBlocks(_, _, _, _, _)
KeepBlocks(blocks, k, kept, kept_chars, C) ==
    IF k = 0 THEN kept
    ELSE LET bsz == LogSize(blocks[k])
         IN  IF kept # <<>> /\ kept_chars + bsz > C
             THEN kept
             ELSE KeepBlocks(blocks, k - 1, blocks[k] \o kept, kept_chars + bsz, C)

\* CharPhase that starts the running size at 0 instead of the size of message 0
CharPhaseNoSystemSize(log, C) ==
    IF LogSize(log) <= C \/ log = <<>> THEN log
    ELSE LET blocks == Blocks(Tail(log), 1)
             kept   == KeepBlocks(blocks, Len(blocks), <<>>, 0, C)
         IN  <<log[1]>> \o DropLeadingTools(kept)

\* lines 368-433
CharPhase(log, C) ==
    IF LogSize(log) <= C \/ log = <<>> THEN log
    ELSE LET blocks == Blocks(Tail(log), 1)
             kept   == KeepBlocks(blocks, Len(blocks), <<>>, MsgSize(log[1]), C)
         IN  <<log[1]>> \o DropLeadingTools(kept)

Trim(log, M, C) == CharPhase(CountPhase(Sanitize(log), M), C)


(***************************************************************************)
(* validate_args (lib/schema.py)                                           *)
(*                                                                         *)
(* A JSON value is [type, text]: its runtime type and str(value).  An      *)
(* arguments dict is a sequence of [key, val] with distinct keys, in       *)
(* insertion order.                                                        *)
(***************************************************************************)
StrVal(text) == [type |-> "str", text |-> text]
IntVal == [type |-> "int", text |-> <<"1">>]
BoolVal == [type |-> "bool", text |-> <<"T", "r", "u", "e">>]
DictVal == [type |-> "dict", text |-> <<"{", "}">>]
ListVal == [type |-> "list", text |-> <<"[", "]">>]

\* isinstance(v, cls); bool is a subclass of int
IsInstance(v, cls) == v.type = cls \/ (cls = "int" /\ v.type = "bool")

Keys(args) == {args[i].key : i \in 1..Len(args)}

Get(args, k) == (CHOOSE i \in 1..Len(args) : args[i].key = k)

\* tool_specs: name -> {required, properties}; a property maps to its declared
\* "type" ("" when the schema declares none)
ToolSpecs ==
    [ t |-> [required |-> <<"p">>,
             properties |-> [p |-> "string", n |-> "integer", b |-> "boolean",
                             o |-> "object", l |-> "array"]],
      u |-> [required |-> <<"q", "p">>,
             properties |-> [q |-> "", p |-> "string"]],
      termux_command |-> [required |-> <<"command">>,
                          properties |-> [command |-> "string"]],
      termux_save_script |-> [required |-> <<"filename", "content">>,
                              properties |-> [filename |-> "string", content |-> "string"]] ]

\* the returned message: which rule failed and the key(s) it names
NoError == [rule |-> "none", key |-> "", keys |-> {}]
ValidationError(rule, key) == [rule |-> rule, key |-> key, keys |-> {}]
UndefinedError(extras) == [rule |-> "undefined_param", key |-> "", keys |-> extras]

\* lines 46-51: the first required key that is missing or (declared string) blank
RECURSIVE RequiredError(_, _, _, _)
RequiredError(required, i, args, props) ==
    IF i > Len(required) THEN NoError
    ELSE LET k == required[i]
         IN  IF k \notin Keys(args) THEN ValidationError("missing", k)
             ELSE IF k \in DOMAIN props /\ props[k] = "string"
                     /\ Strip(args[Get(args, k)].val.text) = <<>>
             THEN ValidationError("blank", k)
             ELSE RequiredError(required, i + 1, args, props)

\* TypeOk without the exclusion of bool where integer is declared
TypeOkBoolIsInt(t, v) ==
    CASE t = "string"  -> IsInstance(v, "str")
      [] t = "integer" -> IsInstance(v, "int")
      [] t = "boolean" -> IsInstance(v, "bool")
      [] t = "object"  -> IsInstance(v, "dict")
      [] t = "array"   -> IsInstance(v, "list")
      [] OTHER         -> TRUE

\* lines 58-72: the check of one supplied value against its declared type
TypeOk(t, v) ==
    CASE t = "string"  -> IsInstance(v, "str")
      [] t = "integer" -> IsInstance(v, "int") /\ ~IsInstance(v, "bool")
      [] t = "boolean" -> IsInstance(v, "bool")
      [] t = "object"  -> IsInstance(v, "dict")
      [] t = "array"   -> IsInstance(v, "list")
      [] OTHER         -> TRUE

\* lines 53-72: the first supplied key, in insertion order, whose value does
\* not have its declared type
RECURSIVE TypeError(_, _, _)
TypeError(args, i, props) ==
    IF i > Len(args) THEN NoError
    ELSE LET k == args[i].key
         IN  IF k \in DOMAIN props /\ ~TypeOk(props[k], args[i].val)
             THEN ValidationError("type", k)
             ELSE TypeError(args, i + 1, props)

\* validate_args(tool_name, args, tool_specs); args is always a dict here
ValidateArgs(tool_name, args, tool_specs) ==
    IF tool_name \notin DOMAIN tool_specs THEN ValidationError("unknown_tool", tool_name)
    ELSE LET spec     == tool_specs[tool_name]
             props    == spec.properties
             extras   == Keys(args) \ DOMAIN props
             reqError == RequiredError(spec.required, 1, args, props)
         IN  IF extras # {} THEN UndefinedError(extras)
             ELSE IF reqError # NoError THEN reqError
             ELSE TypeError(args, 1, props)

(***************************************************************************)
(* chat(): the model's turns and the tool calls they carry                 *)
(***************************************************************************)
\* "".join(name): the key under which tool_specs is searched
NameStr(name) == IF Len(name) = 1 THEN name[1] ELSE "?"

\* _parse_tool_arguments(tc)
ParseToolArguments(tc) ==
    CASE tc.arguments.kind = "empty"  -> <<>>
      [] tc.arguments.kind = "object" -> tc.arguments.obj
      [] OTHER -> <<[key |-> "_parse_error", val |-> StrVal(<<"e">>)]>>

\* chat, lines 1339-1341: err = validate_args(tool_name, args, self.tool_specs)
CallVerdict(tc) == ValidateArgs(NameStr(tc.name), ParseToolArguments(tc), ToolSpecs)

\* the command text the guard inspects (lines 1362-1364)
CommandOf(args) == IF "command" \in Keys(args) THEN args[Get(args, "command")].val.text ELSE <<>>

\* str.lower() of a token: "RM" is the one token of the model written in
\* upper case
Lower(tok) == IF tok = "RM" THEN "rm" ELSE tok
LowerText(text) == [i \in 1..Len(text) |-> Lower(text[i])]

\* the patterns of _is_dangerous_termux_command in their order (lines
\* 732-744).  A token stands for a piece of command text: toks are the tokens
\* whose text the pattern matches ("rm" is `rm -rf`, "rm-r" is `rm -r`, which
\* the first pattern matches as well)
DangerPatterns ==
    << [toks |-> {"rm", "rm-r"},          reason |-> "rm -rf"],
       [toks |-> {"rm-r"},                reason |-> "rm -r"],
       [toks |-> {"mkfs"},                reason |-> "mkfs"],
       [toks |-> {"dd-if"},               reason |-> "dd if="],
       [toks |-> {"dd-of"},               reason |-> "dd of="],
       [toks |-> {"shutdown", "reboot"},  reason |-> "shutdown/reboot"],
       [toks |-> {"mount", "umount"},     reason |-> "mount/umount"],
       [toks |-> {"chmod/"},              reason |-> "chmod on /"],
       [toks |-> {"chown/"},              reason |-> "chown on /"],
       [toks |-> {"curl|sh"},             reason |-> "curl|sh / wget|sh"],
       [toks |-> {">block"},              reason |-> "write to /dev/block"] >>

\* what the guard returns: (is_danger, reason)
Verdict(danger, reason) == [danger |-> danger, reason |-> reason]

\* _is_dangerous_termux_command(cmd) (lines 726-748): the first pattern that
\* matches the stripped, lower-cased command
IsDangerousTermuxCommand(cmd) ==
    LET low == LowerText(Strip(cmd))
        hits == {i \in 1..Len(DangerPatterns) :
                    \E j \in 1..Len(low) : low[j] \in DangerPatterns[i].toks}
    IN  IF low = <<>> \/ hits = {} THEN Verdict(FALSE, "")
        ELSE Verdict(TRUE, DangerPatterns[CHOOSE i \in hits : \A k \in hits : i <= k].reason)

\* an operator regex: not configured, one that does not compile, one that
\* matches a word wherever it stands, one that matches every text
NoRegex == [kind |-> "unset", word |-> ""]
InvalidRegex == [kind |-> "invalid", word |-> ""]
WordRegex(w) == [kind |-> "word", word |-> w]
AnyRegex == [kind |-> "any", word |-> ""]

\* re.search(regex, cmd, flags=re.IGNORECASE) inside try/except re.error
\* (lines 752-757, 758-763): a regex that does not compile matches nothing
RegexSearch(regex, cmd) ==
    CASE regex.kind = "any"  -> TRUE
      [] regex.kind = "word" -> \E j \in 1..Len(cmd) : Lower(cmd[j]) = Lower(regex.word)
      [] OTHER               -> FALSE

\* the allow regex is looked at before the deny regex
DangerousActionAllowFirst(cmd, deny, allow) ==
    LET builtin == IsDangerousTermuxCommand(cmd)
    IN  IF allow.kind # "unset" /\ RegexSearch(allow, cmd) THEN Verdict(FALSE, "")
        ELSE IF deny.kind # "unset" /\ RegexSearch(deny, cmd)
        THEN Verdict(TRUE, IF builtin.reason # "" THEN builtin.reason ELSE "extra_deny_regex")
        ELSE builtin

\* _dangerous_action_for_termux_command(cmd) (lines 750-764)
DangerousActionForTermuxCommand(cmd, deny, allow) ==
    LET builtin == IsDangerousTermuxCommand(cmd)
    IN  IF deny.kind # "unset" /\ RegexSearch(deny, cmd)
        THEN Verdict(TRUE, IF builtin.reason # "" THEN builtin.reason ELSE "extra_deny_regex")
        ELSE IF allow.kind # "unset" /\ RegexSearch(allow, cmd) THEN Verdict(FALSE, "")
        ELSE builtin

\* _dangerous_action_for_termux_command(cmd), no extra regexes configured
DangerousAction(cmd) == DangerousActionForTermuxCommand(cmd, NoRegex, NoRegex).danger

\* the guard is consulted whatever the policy is
DeclinedUnderAnyPolicy(tc, policy, yn) ==
    /\ NameStr(tc.name) = "termux_command"
    /\ DangerousAction(CommandOf(ParseToolArguments(tc)))
    /\ (policy = "deny" \/ yn # "y")

\* lines 1361-1379: the guard declines the call
Declined(tc, policy, yn) ==
    /\ NameStr(tc.name) = "termux_command"
    /\ policy # "off"
    /\ DangerousAction(CommandOf(ParseToolArguments(tc)))
    /\ (policy = "deny" \/ yn # "y")

\* the guard asks the operator (line 1370)
Asks(tc, policy) ==
    /\ CallVerdict(tc) = NoError
    /\ NameStr(tc.name) = "termux_command"
    /\ policy = "confirm"
    /\ DangerousAction(CommandOf(ParseToolArguments(tc)))

\* Route without the validation branch
RouteNoValidation(tc, policy, yn) ==
    IF Declined(tc, policy, yn) THEN "declined"
    ELSE IF NameStr(tc.name) = "termux_save_script" THEN "wrapper"
    ELSE "bridge"

\* lines 1341-1396: where one tool call of the batch goes
Route(tc, policy, yn) ==
    IF CallVerdict(tc) # NoError THEN "invalid"
    ELSE IF Declined(tc, policy, yn) THEN "declined"
    ELSE IF NameStr(tc.name) = "termux_save_script" THEN "wrapper"
    ELSE "bridge"

\* the content of the tool message that reports a validation error
ValidationContent(tc) == <<"validation_error", CallVerdict(tc).rule>>

\* the content of the tool message that carries a result
ResultContent(outcome) == <<outcome>>

\* the id chat gives a named call that came without one (line 1150)
TcId(n) == <<"tc_", ToString(n)>>

\* lines 1138-1155: ids written into the turn's tool_calls, in place
RECURSIVE WithIds(_, _)
WithIds(tcs, nfiltered) ==
    IF tcs = <<>> THEN <<>>
    ELSE LET tc == Head(tcs)
         IN  IF Blank(tc.name) THEN <<tc>> \o WithIds(Tail(tcs), nfiltered)
             ELSE IF Blank(tc.id)
             THEN <<[tc EXCEPT !.id = TcId(nfiltered)]>> \o WithIds(Tail(tcs), nfiltered + 1)
             ELSE <<tc>> \o WithIds(Tail(tcs), nfiltered + 1)

\* lines 1138-1155: the calls chat will dispatch
Filtered(tcs) ==
    LET withIds == WithIds(tcs, 0)
    IN  FilterSeq(withIds, {i \in 1..Len(withIds) : ~Blank(withIds[i].name)})

\* DSML in a text.  A token stands for one piece of markup:
\*   "<dsml>"         markup that is no invoke block
\*   "<invoke>"       <invoke name="t"> <parameter name="p">v</parameter> </invoke>
\*   "<invoke:u>"     <invoke name=" u"> <parameter name="q"> w</parameter>
\*                                        <parameter name="p">v</parameter> </invoke>
\*   "<invoke:dup>"   <invoke name="t"> <parameter name="p">a</parameter>
\*                                       <parameter name="p">v</parameter> </invoke>
\*   "<invoke-open>"  <invoke name="t"> <parameter name="p">v</parameter>   (never closed)
CompleteInvokes == {"<invoke>", "<invoke:u>", "<invoke:dup>"}
OpenInvokes == {"<invoke-open>"}

\* name="..." and the parameter blocks of the markup a token stands for
Markup(tok) ==
    CASE tok = "<invoke:u>"   -> [name |-> <<" ", "u">>,
                                  params |-> <<[key |-> "q", text |-> <<" ", "w">>],
                                               [key |-> "p", text |-> <<"v">>]>>]
      [] tok = "<invoke:dup>" -> [name |-> <<"t">>,
                                  params |-> <<[key |-> "p", text |-> <<"a">>],
                                               [key |-> "p", text |-> <<"v">>]>>]
      [] OTHER                -> [name |-> <<"t">>,
                                  params |-> <<[key |-> "p", text |-> <<"v">>]>>]

\* Markup spelled out in characters: "<" and "/" are themselves, "|DSML|" stands
\* for the six characters after the "<" or the "</" of a marker.
\* _contains_dsml_markup(text)
ContainsDsml(text) ==
    \/ \E i \in 1..Len(text) : text[i] \in {"<dsml>"} \cup CompleteInvokes \cup OpenInvokes
    \/ \E i \in 1..(Len(text) - 1) : text[i] = "<" /\ text[i + 1] = "|DSML|"
    \/ \E i \in 1..(Len(text) - 2) :
           text[i] = "<" /\ text[i + 1] = "/" /\ text[i + 2] = "|DSML|"

\* args[name] = value.strip() for every parameter block, in order (lines
\* 473-474): a later block of the same name replaces the value
RECURSIVE DsmlArgs(_, _)
DsmlArgs(params, args) ==
    IF params = <<>> THEN args
    ELSE LET p    == Head(params)
             val  == StrVal(Strip(p.text))
             same == {i \in 1..Len(args) : args[i].key = p.key}
         IN  DsmlArgs(Tail(params),
                      IF same = {} THEN Append(args, [key |-> p.key, val |-> val])
                      ELSE [i \in 1..Len(args) |-> IF i \in same THEN [args[i] EXCEPT !.val = val]
                                                   ELSE args[i]])

\* the call synthesized from a tool name and parameter blocks (lines 475-481)
DsmlCall(n, name, params) ==
    ToolCall(<<"dsml_", ToString(n)>>, Strip(name), ObjArgs(DsmlArgs(params, <<>>)))

\* invoke_pattern.finditer (lines 460-482): a match runs from an invoke tag to
\* the first closing tag after it, so a tag left open swallows the text up to
\* the end of the next complete block; open holds the name of such a tag and
\* body the parameter blocks met since
RECURSIVE DsmlScan(_, _, _, _)
DsmlScan(text, n, open, body) ==
    IF text = <<>> THEN <<>>
    ELSE IF Head(text) \in CompleteInvokes
    THEN <<DsmlCall(n, IF open = <<>> THEN Markup(Head(text)).name ELSE open[1],
                    body \o Markup(Head(text)).params)>>
         \o DsmlScan(Tail(text), n + 1, <<>>, <<>>)
    ELSE IF Head(text) \in OpenInvokes
    THEN DsmlScan(Tail(text), n, IF open = <<>> THEN <<Markup(Head(text)).name>> ELSE open,
                  body \o Markup(Head(text)).params)
    ELSE DsmlScan(Tail(text), n, open, body)

\* only the first invoke block yields a call
DsmlCallsFirstOnly(text, n) ==
    IF DsmlScan(text, n, <<>>, <<>>) = <<>> THEN <<>> ELSE <<DsmlScan(text, n, <<>>, <<>>)[1]>>

\* lines 469-482: one call per invoke block, in the order of the text
DsmlCalls(text, n) == DsmlScan(text, n, <<>>, <<>>)

\* the parameter blocks of a text, complete invoke blocks or not (line 494)
RECURSIVE AllParams(_)
AllParams(text) ==
    IF text = <<>> THEN <<>>
    ELSE (IF Head(text) \in CompleteInvokes \cup OpenInvokes THEN Markup(Head(text)).params
          ELSE <<>>) \o AllParams(Tail(text))

\* _parse_dsml_function_calls(text) (lines 456-501): the complete invoke
\* blocks or, when there is none, one call from the first invoke tag
ParseDsmlFunctionCalls(text) ==
    LET opens == {i \in 1..Len(text) : text[i] \in OpenInvokes}
    IN  IF DsmlCalls(text, 0) # <<>> THEN DsmlCalls(text, 0)
        ELSE IF opens = {} THEN <<>>
        ELSE <<DsmlCall(0, Markup(text[CHOOSE i \in opens : \A j \in opens : i <= j]).name,
                        AllParams(text))>>

\* _looks_like_missing_tool_call(text)
LooksLikeMissingToolCall(text) == ~InSeq("##report", text) /\ InSeq("call:", text)

\* _looks_like_final_markdown(md)
LooksLikeFinalMarkdown(md) == InSeq("##report", md)

\* re.search(r"(^|\n)\s*r2>\s*$", combined)
EndsWithR2Prompt(text) == text # <<>> /\ text[Len(text)] = "r2>"

\* what _stream_assistant_turn returns
Turn(content, reasoning, raw, finish_reason, answer_started, tcs) ==
    [content |-> content, reasoning_content |-> reasoning, raw_content |-> raw,
     finish_reason |-> finish_reason, answer_started |-> answer_started, tool_calls |-> tcs]

\* lines 1156-1167: the calls recovered from DSML text
DsmlFallback(t) ==
    IF Filtered(t.tool_calls) # <<>> THEN <<>>
    ELSE ParseDsmlFunctionCalls(Strip(t.raw_content \o <<"\n">> \o t.reasoning_content))

\* the calls of the turn chat dispatches
TurnCalls(t) == IF Filtered(t.tool_calls) # <<>> THEN Filtered(t.tool_calls) ELSE DsmlFallback(t)

\* _to_history_msg(assistant_msg) as it stands when chat commits it
HistoryMsg(t) ==
    IF Filtered(t.tool_calls) # <<>>
    THEN AssistantMsg(t.content, t.reasoning_content, WithIds(t.tool_calls, 0))
    ELSE IF DsmlFallback(t) # <<>>
    THEN AssistantMsg(<<>>, t.reasoning_content, DsmlFallback(t))
    ELSE AssistantMsg(t.content, t.reasoning_content, <<>>)

\* lines 1169-1172
Combined(t) == Strip(t.raw_content \o <<"\n">> \o t.reasoning_content)

\* the table with its two strict rules applied in every mode
NoToolRuleAnyMode(t, strict) ==
    CASE ContainsDsml(Combined(t))                               -> "dsml_leak"
      [] t.finish_reason = "length"                              -> "length"
      [] t.finish_reason = "" /\ Combined(t) # <<>>              -> "no_finish"
      [] ~t.answer_started /\ Combined(t) # <<>>                 -> "not_started"
      [] Combined(t) # <<>>
            /\ LooksLikeMissingToolCall(Combined(t))             -> "missing_tool_call"
      [] Blank(t.content) /\ ~Blank(t.reasoning_content)         -> "reasoning_only"
      [] EndsWithR2Prompt(Combined(t))                           -> "r2_prompt"
      [] ~LooksLikeFinalMarkdown(Strip(t.content))               -> "no_final_markdown"
      [] OTHER                                                   -> ""

\* the table with the reasoning-only rule ahead of the verbal-plan rule
NoToolRuleReasoningFirst(t, strict) ==
    CASE ContainsDsml(Combined(t))                               -> "dsml_leak"
      [] t.finish_reason = "length"                              -> "length"
      [] t.finish_reason = "" /\ Combined(t) # <<>>              -> "no_finish"
      [] ~t.answer_started /\ Combined(t) # <<>>                 -> "not_started"
      [] Blank(t.content) /\ ~Blank(t.reasoning_content)         -> "reasoning_only"
      [] strict /\ Combined(t) # <<>>
            /\ LooksLikeMissingToolCall(Combined(t))             -> "missing_tool_call"
      [] EndsWithR2Prompt(Combined(t))                           -> "r2_prompt"
      [] strict /\ ~LooksLikeFinalMarkdown(Strip(t.content))     -> "no_final_markdown"
      [] OTHER                                                   -> ""

\* lines 1179-1314: the retry the no-tool decision table picks, "" for none
NoToolRule(t, strict) ==
    CASE ContainsDsml(Combined(t))                               -> "dsml_leak"
      [] t.finish_reason = "length"                              -> "length"
      [] t.finish_reason = "" /\ Combined(t) # <<>>              -> "no_finish"
      [] ~t.answer_started /\ Combined(t) # <<>>                 -> "not_started"
      [] strict /\ Combined(t) # <<>>
            /\ LooksLikeMissingToolCall(Combined(t))             -> "missing_tool_call"
      [] Blank(t.content) /\ ~Blank(t.reasoning_content)         -> "reasoning_only"
      [] EndsWithR2Prompt(Combined(t))                           -> "r2_prompt"
      [] strict /\ ~LooksLikeFinalMarkdown(Strip(t.content))     -> "no_final_markdown"
      [] OTHER                                                   -> ""

\* the prompts _build_system_prompt_strict / _build_system_prompt_loose return
SystemPrompt(mode) == IF mode = "strict" THEN <<"S">> ELSE <<"L">>

\* _ensure_system_prompt_for_mode(mode), its effect on the log
EnsureSystemPrompt(log, mode, active) ==
    IF mode # active /\ log # <<>> /\ log[1].role = "system"
    THEN [log EXCEPT ![1].content = SystemPrompt(mode)]
    ELSE log

(***************************************************************************)
(* State                                                                   *)
(***************************************************************************)
VARIABLES
    \* the log and its ceilings
    messages,                \* self.messages
    max_context_messages,    \* self.max_context_messages
    max_context_chars,       \* self.max_context_chars
    phase,                   \* the last operation applied to the log
    logIn,                   \* the log that operation was applied to
    \* validate_args
    call,                    \* the (tool_name, args) under validation
    verdict,                 \* what validate_args returned for it
    \* the analyzer
    active_chat_mode,        \* self._active_chat_mode
    dangerous_policy,        \* self.dangerous_policy
    load_ok,                 \* what the last load_session returned
    \* chat
    pc,                      \* position inside chat
    strict_mode,             \* strict_mode
    turns,                   \* iterations of the for loop started
    missing_tool_retry,
    bad_validation_retry,
    recoverable_retry,
    recoverable_hint_retry,
    errors,                  \* len(errors)
    batch,                   \* tool_calls of the turn being dispatched
    batch_pos,               \* index of the call the loop is at
    validation_errors,       \* len(validation_errors)
    success_calls,
    recoverable_errors,      \* len(recoverable_errors)
    returned,                \* how the last chat ended
    \* the model and the bridge
    sent,                    \* messages of the latest model request
    tool_choice,             \* tool_choice of the latest model request
    turn_calls,              \* calls of this batch handed to the bridge or the wrapper
    \* bookkeeping
    cut,                     \* a ceiling removed messages since the last commit
    chats,                   \* chats started
    requests,                \* model requests issued
    profile,                 \* how the model and the bridge behave in this run
    \* the request and its stream
    tools_attached,          \* the latest model request carried "tools"
    stream,                  \* the stream handle of the latest model request
    \* more of chat
    last_nonempty_answer,    \* last_nonempty_answer
    traced,                  \* tool names logged under this chat's trace id
    result,                  \* the text the last chat returned
    asked,                   \* model requests the current or the last chat issued
    fatal_run,               \* calls of this chat that ended in a fatal error, in a row
    log0,                    \* self.messages when the chat in progress was called
    answered,                \* what input() returned at this chat's latest confirmation prompt
    \* the analyzer, continued
    model,                   \* self.model
    summary_model,           \* self.summary_model
    debug,                   \* debug_enabled()
    dangerous_allow_regex,       \* self.dangerous_allow_regex
    dangerous_extra_deny_regex,  \* self.dangerous_extra_deny_regex
    \* R2BridgeClient
    req_id,                  \* self.req_id
    rpc_pc,                  \* position inside _rpc: idle, or post (in the retry loop)
    attempt,                 \* attempt, the loop variable of _rpc
    body,                    \* the request id and the payload of the RPC in progress
    posts,                   \* what each HTTP POST of the latest RPC carried
    tried,                   \* how each HTTP POST of the latest RPC ended
    slept,                   \* the time.sleep calls of the latest RPC, in tenths of a second
    rpc_result,              \* how the latest RPC ended
    \* _stream_assistant_turn
    chunks,                  \* the chunks the stream will deliver
    chunk_pos,               \* chunks consumed so far
    stream_pc,               \* idle, streaming, returned or raised
    started,                 \* started
    thinking_started,        \* thinking_started
    suppress_answer_output,  \* suppress_answer_output
    answer_buffer,           \* answer_buffer
    msg_content,             \* msg["content"]
    msg_reasoning,           \* reasoning
    raw_content,             \* raw_content
    last_finish_reason,      \* last_finish_reason
    tool_calls_acc,          \* tool_calls, the list the deltas are merged into
    suppressed_at            \* the chunk that set suppress_answer_output (0: none did)

logVars == <<messages, max_context_messages, max_context_chars, phase, logIn>>
valVars == <<call, verdict>>
analyzerVars == <<active_chat_mode, dangerous_policy, load_ok, pc, strict_mode, turns,
              missing_tool_retry, bad_validation_retry, recoverable_retry,
              recoverable_hint_retry, errors, batch, batch_pos, validation_errors, success_calls,
              recoverable_errors, returned, sent, tool_choice, turn_calls, cut, chats, requests,
              profile, tools_attached, stream, last_nonempty_answer, traced, result, asked,
              fatal_run, log0, answered, model, summary_model, debug, dangerous_allow_regex,
              dangerous_extra_deny_regex>>
rpcVars == <<req_id, rpc_pc, attempt, body, posts, tried, slept, rpc_result>>
decoderVars == <<chunks, chunk_pos, stream_pc, started, thinking_started,
                 suppress_answer_output, answer_buffer, msg_content, msg_reasoning,
                 raw_content, last_finish_reason, tool_calls_acc, suppressed_at>>
chatVars == <<analyzerVars, rpcVars, decoderVars>>
vars == <<logVars, valVars, chatVars>>

\* config.py
MAX_CONTEXT_MESSAGES == 40
MAX_CONTEXT_CHARS == 140000

(***************************************************************************)
(* Logs a session file can hold: load_session takes any non-empty list of  *)
(* dicts (lines 335-342).                                                  *)
(***************************************************************************)
MaxSanLen == 3
MaxTrimLen == 4

IdA == <<"a">>
IdAPadded == <<" ", "a">>
IdB == <<"b">>
NameT == <<"t">>

TcsUniverse ==
    { <<ToolCall(IdA, NameT, EmptyArgs)>>,
      <<ToolCall(IdA, NameT, EmptyArgs), ToolCall(IdB, NameT, EmptyArgs)>>,
      <<ToolCall(IdB, NameT, EmptyArgs), ToolCall(<<>>, NameT, EmptyArgs)>>,
      <<ToolCall(IdA, <<>>, EmptyArgs), ToolCall(IdB, NameT, EmptyArgs)>>,
      <<ToolCall(IdAPadded, NameT, EmptyArgs)>> }

SanUniverse ==
    { SystemMsg(<<"s">>), UserMsg(<<"u">>),
      AssistantMsg(<<"c">>, <<>>, <<>>), AssistantMsg(<<>>, <<>>, <<>>) }
    \cup { AssistantMsg(c, <<>>, tcs) : c \in {<<" ">>, <<"c">>}, tcs \in TcsUniverse }
    \cup { AssistantMsg(<<>>, <<"r">>, <<ToolCall(IdA, NameT, EmptyArgs)>>) }
    \cup { ToolMsg(id, <<"r">>) : id \in {IdA, IdB, FixupId(1, 1), <<>>} }

TrimUniverse ==
    { SystemMsg(<<"s", "s">>), UserMsg(<<"u">>), UserMsg(<<"u", "u", "u", "u">>),
      AssistantMsg(<<"c">>, <<>>, <<>>),
      AssistantMsg(<<>>, <<>>, <<ToolCall(IdA, NameT, EmptyArgs)>>),
      ToolMsg(IdA, <<"r">>), ToolMsg(IdAPadded, <<"r">>) }

LogsOver(U, n) == UNION { [1..k -> U] : k \in 1..n }

MessageCeilings == {1, 2, 3, MAX_CONTEXT_MESSAGES}
CharCeilings == {4, 8, MAX_CONTEXT_CHARS}

NoCall == [name |-> "", args |-> <<>>]

ValIdle == call = NoCall /\ verdict = NoError

\* R2BridgeClient.__init__ (bridge.py lines 16-21): no RPC was made yet
NoBody == [id |-> 0, method |-> "", params |-> ""]

RpcIdle ==
    /\ req_id = 1
    /\ rpc_pc = "idle"
    /\ attempt = 0
    /\ body = NoBody
    /\ posts = <<>>
    /\ tried = <<>>
    /\ slept = <<>>
    /\ rpc_result = "none"

\* lines 876-887: the locals of _stream_assistant_turn before the first chunk
DecoderFresh ==
    /\ chunk_pos = 0
    /\ started = FALSE
    /\ thinking_started = FALSE
    /\ suppress_answer_output = FALSE
    /\ answer_buffer = <<>>
    /\ msg_content = <<>>
    /\ msg_reasoning = <<>>
    /\ raw_content = <<>>
    /\ last_finish_reason = ""
    /\ tool_calls_acc = <<>>
    /\ suppressed_at = 0

\* no stream is being decoded
DecoderIdle ==
    /\ chunks = <<>>
    /\ stream_pc = "idle"
    /\ DecoderFresh

\* no chat in progress, whatever the guard is configured with
ChatIdleGuardFree ==
    /\ answered = ""
    /\ RpcIdle
    /\ DecoderIdle
    /\ pc = "idle"
    /\ active_chat_mode = "loose"
    /\ strict_mode = FALSE
    /\ turns = 0
    /\ missing_tool_retry = 0
    /\ bad_validation_retry = 0
    /\ recoverable_retry = 0
    /\ recoverable_hint_retry = 0
    /\ errors = 0
    /\ batch = <<>>
    /\ batch_pos = 0
    /\ validation_errors = 0
    /\ success_calls = 0
    /\ recoverable_errors = 0
    /\ sent = <<>>
    /\ tool_choice = ""
    /\ turn_calls = <<>>
    /\ cut = FALSE
    /\ chats = 0
    /\ requests = 0
    /\ returned = "none"
    /\ load_ok = FALSE
    /\ profile = "any"
    /\ tools_attached = FALSE
    /\ stream = "none"
    /\ last_nonempty_answer = <<>>
    /\ traced = <<>>
    /\ result = <<>>
    /\ asked = 0
    /\ fatal_run = 0
    /\ log0 = <<>>
    /\ model = <<"m">>
    /\ summary_model = <<"m">>
    /\ debug = FALSE

\* the same with the default guard: policy confirm, no operator regexes
ChatIdle ==
    /\ ChatIdleGuardFree
    /\ dangerous_policy = "confirm"
    /\ dangerous_allow_regex = NoRegex
    /\ dangerous_extra_deny_regex = NoRegex


(***************************************************************************)
(* The two log operations applied to a loaded log                          *)
(***************************************************************************)
\* _sanitize_messages_for_tools()
SanitizeOp ==
    /\ phase \in {"input", "sanitized"}
    /\ messages' = Sanitize(messages)
    /\ logIn' = messages
    /\ phase' = IF phase = "input" THEN "sanitized" ELSE "sanitized2"
    /\ UNCHANGED <<max_context_messages, max_context_chars, valVars, chatVars>>

\* _trim_messages()
TrimOp ==
    /\ phase = "input"
    /\ messages' = Trim(messages, max_context_messages, max_context_chars)
    /\ logIn' = messages
    /\ phase' = "trimmed"
    /\ UNCHANGED <<max_context_messages, max_context_chars, valVars, chatVars>>

InitSanitize ==
    /\ messages \in LogsOver(SanUniverse, MaxSanLen)
    /\ max_context_messages = MAX_CONTEXT_MESSAGES
    /\ max_context_chars = MAX_CONTEXT_CHARS
    /\ phase = "input"
    /\ logIn = <<>>
    /\ ValIdle
    /\ ChatIdle

SpecSanitize == InitSanitize /\ [][SanitizeOp]_vars

InitTrim ==
    /\ messages \in LogsOver(TrimUniverse, MaxTrimLen)
    /\ max_context_messages \in MessageCeilings
    /\ max_context_chars \in CharCeilings
    /\ phase = "input"
    /\ logIn = <<>>
    /\ ValIdle
    /\ ChatIdle

SpecTrim == InitTrim /\ [][TrimOp]_vars

(***************************************************************************)
(* validate_args applied to a candidate call                               *)
(***************************************************************************)
MaxArgs == 2

ArgKeys == {"p", "n", "b", "q", "x"}
ArgValues == {StrVal(<<>>), StrVal(<<" ">>), StrVal(<<"v">>), IntVal, BoolVal, DictVal}

\* dicts of at most n entries
ArgsUpTo(n) ==
    UNION { { a \in [1..m -> [key : ArgKeys, val : ArgValues]] :
                \A i, j \in 1..m : i # j => a[i].key # a[j].key } : m \in 0..n }

CallUniverse == [name : {"t", "u", "zz"}, args : ArgsUpTo(MaxArgs)]

ValidateOp ==
    /\ phase = "input"
    /\ verdict' = ValidateArgs(call.name, call.args, ToolSpecs)
    /\ phase' = "validated"
    /\ UNCHANGED <<messages, max_context_messages, max_context_chars, logIn, call, chatVars>>

InitValidate ==
    /\ messages = <<SystemMsg(<<"s">>)>>
    /\ max_context_messages = MAX_CONTEXT_MESSAGES
    /\ max_context_chars = MAX_CONTEXT_CHARS
    /\ phase = "input"
    /\ logIn = <<>>
    /\ call \in CallUniverse
    /\ verdict = NoError
    /\ ChatIdle

SpecValidate == InitValidate /\ [][ValidateOp]_vars

(***************************************************************************)
(* The guard applied to the command of a termux_command call               *)
(***************************************************************************)
MaxCmdLen == 2

GuardTokens == {"rm", "RM", "reboot", "ls", " "}
GuardRegexes == {NoRegex, InvalidRegex, WordRegex("rm"), WordRegex("LS"), AnyRegex}

\* the texts of at most n tokens
TextsUpTo(toks, n) == UNION { [1..m -> toks] : m \in 0..n }

GuardOp ==
    /\ phase = "input"
    /\ verdict' = DangerousActionForTermuxCommand(CommandOf(call.args),
                        dangerous_extra_deny_regex, dangerous_allow_regex)
    /\ phase' = "guarded"
    /\ UNCHANGED <<messages, max_context_messages, max_context_chars, logIn, call, chatVars>>

InitGuard ==
    /\ messages = <<SystemMsg(<<"s">>)>>
    /\ max_context_messages = MAX_CONTEXT_MESSAGES
    /\ max_context_chars = MAX_CONTEXT_CHARS
    /\ phase = "input"
    /\ logIn = <<>>
    /\ call \in {[name |-> "termux_command", args |-> <<[key |-> "command", val |-> StrVal(c)]>>] :
                    c \in TextsUpTo(GuardTokens, MaxCmdLen)}
    /\ verdict = Verdict(FALSE, "")
    /\ ChatIdleGuardFree
    /\ dangerous_policy \in {"confirm", "deny", "off"}
    /\ dangerous_allow_regex \in GuardRegexes
    /\ dangerous_extra_deny_regex \in GuardRegexes

SpecGuard == InitGuard /\ [][GuardOp]_vars

(***************************************************************************)
(* R2BridgeClient._rpc: one JSON-RPC call over HTTP with its retry loop    *)
(***************************************************************************)
\* how many RPCs a run of the client makes
MaxRpcs == 2

\* range(3) (bridge.py line 55)
rpc_attempts == 3

\* the statuses _rpc names (bridge.py line 59)
TransientStatuses == {408, 429, 502, 503, 504}

\* how one self._session.post(...) of the loop can end:
\*   ok            a response with JSON that has no "error"
\*   rpc_error     a response with JSON that has an "error" object
\*   invalid_json  a response whose body resp.json() cannot parse
\*   http          a response with an error status (raise_for_status raises,
\*                 or the status is one of TransientStatuses)
\*   timeout, connection   requests.Timeout, requests.ConnectionError
\*   other         an exception the loop does not catch (for example
\*                 requests.TooManyRedirects)
Ended(kind, status) == [kind |-> kind, status |-> status]

PostOutcomes ==
    {Ended(k, 200) : k \in {"ok", "rpc_error", "invalid_json"}}
    \cup {Ended("http", st) : st \in TransientStatuses \cup {404, 500}}
    \cup {Ended(k, 0) : k \in {"timeout", "connection", "other"}}

\* the response was received and parsed: the loop is left by break (line 76)
Parsed(o) == o.kind \in {"ok", "rpc_error"}

\* the exception the attempt raises is one the except clause of the loop
\* names (line 77): requests.Timeout, requests.ConnectionError,
\* requests.HTTPError (raised at line 67 for a transient status and by
\* raise_for_status at line 68 for every other error status), ValueError
\* (line 75)
Caught(o) == o.kind \in {"timeout", "connection", "http", "invalid_json"}

\* the same pause after every failure
BackoffFlat(n) == 4

\* time.sleep(0.4 * (2 ** attempt)) (line 82), in tenths of a second
Backoff(n) == 4 * (2 ^ n)

\* the RPCs the client is asked for: tools/list, tools/call
RpcCalls == {[method |-> "tools/list", params |-> ""], [method |-> "tools/call", params |-> "t"]}

\* _rpc up to the loop (lines 33-39): the payload takes the request id, the
\* id is incremented
RpcStart(c) ==
    /\ rpc_pc = "idle"
    /\ req_id <= MaxRpcs
    /\ body' = [id |-> req_id, method |-> c.method, params |-> c.params]
    /\ req_id' = req_id + 1
    /\ attempt' = 0
    /\ posts' = <<>>
    /\ tried' = <<>>
    /\ slept' = <<>>
    /\ rpc_result' = "none"
    /\ rpc_pc' = "post"
    /\ UNCHANGED <<logVars, valVars, analyzerVars, decoderVars>>

\* one pass of the loop (lines 55-84) and, when the loop is left, the rest of
\* _rpc (lines 89-95)
RpcAttempt(o) ==
    /\ rpc_pc = "post"
    /\ posts' = Append(posts, body)
    /\ tried' = Append(tried, o)
    /\ IF Parsed(o)
       THEN /\ rpc_pc' = "idle"
            /\ rpc_result' = IF o.kind = "rpc_error" THEN "JsonRpcError" ELSE "returned"
            /\ UNCHANGED <<attempt, slept>>
       ELSE IF Caught(o) /\ attempt < rpc_attempts - 1
       THEN /\ slept' = Append(slept, Backoff(attempt))
            /\ attempt' = attempt + 1
            /\ UNCHANGED <<rpc_pc, rpc_result>>
       ELSE /\ rpc_pc' = "idle"
            /\ rpc_result' = "raised"
            /\ UNCHANGED <<attempt, slept>>
    /\ UNCHANGED <<logVars, valVars, analyzerVars, decoderVars, req_id, body>>

InitRpc ==
    /\ messages = <<SystemMsg(<<"s">>)>>
    /\ max_context_messages = MAX_CONTEXT_MESSAGES
    /\ max_context_chars = MAX_CONTEXT_CHARS
    /\ phase = "init"
    /\ logIn = <<>>
    /\ ValIdle
    /\ ChatIdle

NextRpc ==
    \/ \E c \in RpcCalls : RpcStart(c)
    \/ \E o \in PostOutcomes : RpcAttempt(o)

SpecRpc == InitRpc /\ [][NextRpc]_vars

(***************************************************************************)
(* chat() as a state machine.  pc is the position inside chat:             *)
(*   idle         no chat in progress                                      *)
(*   loop         at the head of the for loop (or past it, turns used up)  *)
(*   await        a model request is in flight                             *)
(*   dispatch     in the loop over the turn's tool calls, at batch[batch_pos] *)
(*   after_batch  past that loop, before the retry decisions               *)
(***************************************************************************)
\* chat's local limits (lines 1090-1097)
max_missing_tool_retry == 6
max_turns == 24
max_bad_validation_retry == 4
max_recoverable_retry == 4
max_recoverable_hint_retry == 6
\* len(errors) >= 4 (line 1425)
max_errors == 4

\* the loop stops one error later
TooManyErrorsOneLate(n) == n > max_errors

\* the test that stops the loop after an error (line 1425)
TooManyErrors(n) == n >= max_errors

\* how many chats one run starts, and how many model requests a run issues
\* when the model and the bridge are unconstrained
MaxChats == 1
MaxRequests == 1

ArgP(text) == <<[key |-> "p", val |-> StrVal(text)]>>
ArgCommand(text) == <<[key |-> "command", val |-> StrVal(text)]>>
ArgScript == <<[key |-> "filename", val |-> StrVal(<<"f">>)],
               [key |-> "content", val |-> StrVal(<<"c">>)]>>

NameCommand == <<"termux_command">>
NameSaveScript == <<"termux_save_script">>

COk == ToolCall(IdA, NameT, ObjArgs(ArgP(<<"v">>)))
COkB == ToolCall(IdB, NameT, ObjArgs(ArgP(<<"v">>)))

RoutineTurn == Turn(<<>>, <<>>, <<>>, "tool_calls", FALSE, <<COk>>)

\* the batches a turn may carry
BatchUniverse ==
    { <<COk>>, <<COk, COkB>>,
      <<ToolCall(IdB, NameT, ObjArgs(ArgP(<<" ">>))), COk>>,
      <<ToolCall(IdB, NameT, InvalidJson)>>,
      <<ToolCall(IdB, NameT, NonObjectJson), COk>>,
      <<ToolCall(<<>>, NameT, ObjArgs(ArgP(<<"v">>)))>>,
      <<ToolCall(IdB, <<>>, ObjArgs(ArgP(<<"v">>))), COk>>,
      <<ToolCall(IdB, <<>>, EmptyArgs)>>,
      <<ToolCall(IdA, NameCommand, ObjArgs(ArgCommand(<<"rm">>)))>>,
      <<ToolCall(IdA, NameCommand, ObjArgs(ArgCommand(<<"ls">>)))>>,
      <<COk, ToolCall(IdB, NameCommand, ObjArgs(ArgCommand(<<"rm">>)))>>,
      <<ToolCall(IdA, NameSaveScript, ObjArgs(ArgScript))>>,
      <<ToolCall(IdB, NameSaveScript, ObjArgs(ArgCommand(<<"ls">>))), COk>> }

\* the turns the model may answer a tool_choice="auto" request with
TurnUniverse ==
    { Turn(<<>>, <<>>, <<>>, "tool_calls", FALSE, b) : b \in BatchUniverse }
    \cup { Turn(<<"x">>, <<>>, <<"x">>, "tool_calls", TRUE, <<COk, COkB>>) }
    \cup { Turn(<<"x">>, <<>>, <<"x">>, "stop", TRUE, <<>>),
           Turn(<<"##report">>, <<>>, <<"##report">>, "stop", TRUE, <<>>),
           Turn(<<"x">>, <<>>, <<"x">>, "length", TRUE, <<>>),
           Turn(<<"x">>, <<>>, <<"x">>, "", TRUE, <<>>),
           Turn(<<>>, <<"r">>, <<>>, "stop", FALSE, <<>>),
           Turn(<<" ">>, <<"r">>, <<" ">>, "stop", TRUE, <<>>),
           Turn(<<" ">>, <<"call:">>, <<" ">>, "stop", TRUE, <<>>),
           Turn(<<"call:">>, <<>>, <<"call:">>, "stop", TRUE, <<>>),
           Turn(<<"x", "r2>">>, <<>>, <<"x", "r2>">>, "stop", TRUE, <<>>),
           Turn(<<>>, <<>>, <<"<dsml>">>, "stop", FALSE, <<>>),
           Turn(<<>>, <<>>, <<"<invoke>">>, "stop", FALSE, <<>>),
           Turn(<<>>, <<"<invoke:u>">>, <<"<invoke:dup>", "x", "<invoke>">>, "stop", FALSE, <<>>),
           Turn(<<>>, <<>>, <<"<invoke-open>">>, "stop", FALSE, <<>>),
           Turn(<<>>, <<>>, <<"<invoke:u>">>, "tool_calls", FALSE, <<COk>>),
           Turn(<<>>, <<>>, <<"<invoke:u>">>, "tool_calls", FALSE,
                <<ToolCall(IdB, <<>>, ObjArgs(ArgP(<<"v">>)))>>),
           Turn(<<>>, <<>>, <<>>, "stop", FALSE, <<>>) }

\* the turns the model may answer the tool_choice="none" request with
SummaryUniverse ==
    { Turn(<<"x">>, <<>>, <<"x">>, "stop", TRUE, <<>>),
      Turn(<<>>, <<>>, <<>>, "stop", FALSE, <<>>) }

\* The model and the bridge of a run:
\*   routine  every turn carries one valid call, every call succeeds
\*   failing  every turn carries one valid call, every call fails
\*   any      any turn, any result, interrupts and stream errors
\*   plain      every turn is the same plain answer without report sections
\*   malformed  every turn carries one call whose arguments are not JSON
\*   narrating  every turn carries text and two valid calls, every call
\*              fails in a way the bridge marks recoverable
\*   partial    the turns of narrating; the first call of a turn succeeds,
\*              the second fails in a way the bridge marks recoverable
\*   flaky      the turns of narrating; the first call of a turn returns an
\*              error, the second an error the bridge marks recoverable
Profiles == {"routine", "failing", "plain", "malformed", "narrating", "partial", "flaky", "any"}

PlainTurn == Turn(<<"x">>, <<>>, <<"x">>, "stop", TRUE, <<>>)
MalformedTurn == Turn(<<>>, <<>>, <<>>, "tool_calls", FALSE, <<ToolCall(IdB, NameT, InvalidJson)>>)
NarratingTurn == Turn(<<"x">>, <<>>, <<"x">>, "tool_calls", TRUE, <<COk, COkB>>)

\* a call ends in a fatal error when the result it returns carries an error
\* not marked recoverable ("error") or when it raises an exception other than
\* KeyboardInterrupt ("raised"); the exceptions bridge.call_tool and the
\* save-script wrapper raise carry a message (bridge.py lines 67-93)
FatalEnds == {"error", "raised"}

\* the turns the model of a profile answers with
ProfileTurns(p) ==
    CASE p = "any"       -> TurnUniverse
      [] p = "plain"     -> {PlainTurn}
      [] p = "malformed" -> {MalformedTurn}
      [] p \in {"narrating", "partial", "flaky"} -> {NarratingTurn}
      [] OTHER           -> {RoutineTurn}

\* how the call at a position of the batch may end under a profile
ProfileOutcomes(p, pos) ==
    CASE p = "any"       -> {"ok", "recoverable", "error", "raised"}
      [] p = "failing"   -> {"error", "raised"}
      [] p = "narrating" -> {"recoverable"}
      [] p = "partial"   -> IF pos = 1 THEN {"ok"} ELSE {"recoverable"}
      [] p = "flaky"     -> IF pos = 1 THEN {"error"} ELSE {"recoverable"}
      [] OTHER           -> {"ok"}

\* the keys _stream_assistant_turn adds to the message it returns
MetaKeys == {"_finish_reason", "_answer_started", "_thinking_started",
             "_raw_content", "_streamed_markdown"}

\* session files load_session may be handed: messages, or not a usable list
NonDict == Msg("<nondict>", <<>>, <<>>, <<>>, <<>>)

\* session_data.get(key) of a key the file does not have
NoneVal == [type |-> "none", text |-> <<>>]

\* session_data: kind says what "messages" is (a list, something that is not
\* a list, or missing)
Session(kind, msgs, m, sm) == [kind |-> kind, messages |-> msgs, model |-> m, summary_model |-> sm]

SessionUniverse ==
    { Session("list", <<SystemMsg(<<"L">>), UserMsg(<<"u">>), AssistantMsg(<<"x">>, <<>>, <<>>)>>,
              StrVal(<<" ", "n", " ">>), StrVal(<<" ">>)),
      Session("list", <<SystemMsg(<<"L">>), UserMsg(<<"u">>), AssistantMsg(<<"x">>, <<>>, <<>>)>>,
              NoneVal, NoneVal),
      Session("list", <<UserMsg(<<"u">>)>>, IntVal, StrVal(<<"k">>)),
      Session("list", <<SystemMsg(<<"S">>), UserMsg(<<"u">>)>>, StrVal(<<"n">>), StrVal(<<"k">>)),
      Session("list", <<UserMsg(<<"u">>), AssistantMsg(<<"x">>, <<>>, <<>>)>>,
              StrVal(<<"o">>), StrVal(<<>>)),
      Session("list", <<SystemMsg(<<"L">>), UserMsg(<<"u">>)>>, StrVal(<<"n">>), NoneVal),
      Session("list", <<SystemMsg(<<"S">>), UserMsg(<<"u">>)>>, NoneVal, NoneVal),
      Session("list", <<UserMsg(<<"u">>)>>, NoneVal, NoneVal),
      Session("list", <<ToolMsg(IdA, <<"r">>)>>, NoneVal, NoneVal),
      Session("list", <<AssistantMsg(<<>>, <<>>, <<COk>>), ToolMsg(IdA, <<"r">>)>>,
              NoneVal, NoneVal),
      Session("list", <<SystemMsg(<<"L">>), NonDict>>, StrVal(<<"n">>), StrVal(<<"k">>)),
      Session("list", <<NonDict, SystemMsg(<<"L">>)>>, StrVal(<<"n">>), NoneVal),
      Session("list", <<>>, StrVal(<<"n">>), StrVal(<<"k">>)),
      Session("other", <<>>, StrVal(<<"n">>), StrVal(<<"k">>)),
      Session("missing", <<>>, StrVal(<<"n">>), StrVal(<<"k">>)),
      Session("list", <<SystemMsg(<<"L">>), NonDict>>, NoneVal, NoneVal),
      Session("list", <<>>, NoneVal, NoneVal),
      Session("missing", <<>>, NoneVal, NoneVal) }

\* the session files a run of chats loads: they name no model
ChatSessions == {s \in SessionUniverse : s.model = NoneVal /\ s.summary_model = NoneVal}

\* a model name of the session replaces the analyzer's when it is a string
\* that is not blank (lines 343-348)
SessionModel(v, current) ==
    IF v.type = "str" /\ Strip(v.text) # <<>> THEN Strip(v.text) ELSE current

ChatMessageCeilings == {4, MAX_CONTEXT_MESSAGES}
ChatCharCeilings == {MAX_CONTEXT_CHARS}
Policies == {"confirm", "deny", "off"}

\* _trim_messages() under the analyzer's ceilings
TrimNow(log) == Trim(log, max_context_messages, max_context_chars)

\* the count or the character phase removed something
Cuts(log) == TrimNow(log) # Sanitize(log)

\* tools and tool_choice go into the request only when tool_choice is not
\* "none" (lines 863-875)
ToolsAlwaysAttached(choice) == TRUE

ToolsAttached(choice) == choice # "none"

\* the debug trace gets a tool_call event for the call (lines 1349-1358);
\* _append_key_commands keeps each name once (lines 1071-1073)
Trace(names, tc) ==
    IF debug /\ ~InSeq(NameStr(tc.name), names) THEN Append(names, NameStr(tc.name)) ELSE names

\* _append_key_commands(final_md, trace_id) (lines 1059-1080)
AppendKeyCommands(final_md, names) ==
    IF names = <<>> THEN final_md
    ELSE Strip(RStrip(final_md) \o <<"\n", "\n", "## commands", "\n">> \o names \o <<"\n">>)
         \o <<"\n">>

\* the text chat returns from the final-answer path (lines 1297, 1318-1319)
FinalText(t, names) ==
    AppendKeyCommands(IF Strip(t.content) # <<>> THEN Strip(t.content) ELSE <<"(no text)">>,
                      names)

\* the text chat returns after the tool_choice="none" request (lines 1527-1529)
SummaryText(t, last) ==
    IF Strip(t.content) # <<>> THEN Strip(t.content)
    ELSE Strip(IF last # <<>> THEN last ELSE <<"round over">>)

\* last_nonempty_answer after a turn (lines 1109-1114)
LastAnswer(t, last) == IF Strip(t.content) # <<>> THEN Strip(t.content) ELSE last

\* the text chat returns when it stops after repeated failures (lines 1426-1434)
StoppedText == <<"stopped after failures">>

\* debug_enabled() is off unless it was switched on (debug.py lines 15-18);
\* the runs with the trace switched on are those of one configuration
DebugSettings(p, policy, ceiling) ==
    IF p = "any" /\ policy = "off" /\ ceiling = MAX_CONTEXT_MESSAGES THEN BOOLEAN ELSE {FALSE}

\* AIAnalyzer.__init__ (lines 108-155)
Init ==
    /\ messages = <<SystemMsg(SystemPrompt("loose"))>>
    /\ max_context_messages \in ChatMessageCeilings
    /\ max_context_chars \in ChatCharCeilings
    /\ phase = "init"
    /\ logIn = <<>>
    /\ ValIdle
    /\ pc = "idle"
    /\ active_chat_mode = "loose"
    /\ strict_mode = FALSE
    /\ dangerous_policy \in Policies
    /\ turns = 0
    /\ missing_tool_retry = 0
    /\ bad_validation_retry = 0
    /\ recoverable_retry = 0
    /\ recoverable_hint_retry = 0
    /\ errors = 0
    /\ batch = <<>>
    /\ batch_pos = 0
    /\ validation_errors = 0
    /\ success_calls = 0
    /\ recoverable_errors = 0
    /\ sent = <<>>
    /\ tool_choice = ""
    /\ turn_calls = <<>>
    /\ cut = FALSE
    /\ chats = 0
    /\ requests = 0
    /\ returned = "none"
    /\ load_ok = FALSE
    /\ profile \in Profiles
    /\ tools_attached = FALSE
    /\ stream = "none"
    /\ last_nonempty_answer = <<>>
    /\ traced = <<>>
    /\ result = <<>>
    /\ asked = 0
    /\ fatal_run = 0
    /\ log0 = <<>>
    /\ model = <<"m">>
    /\ summary_model = <<"m">>
    /\ debug \in DebugSettings(profile, dangerous_policy, max_context_messages)
    /\ dangerous_allow_regex = NoRegex
    /\ dangerous_extra_deny_regex = NoRegex
    /\ RpcIdle
    /\ DecoderIdle
    /\ answered = ""

settingVars == <<max_context_messages, max_context_chars, dangerous_policy, profile, debug,
                model, summary_model, dangerous_allow_regex, dangerous_extra_deny_regex,
                rpcVars, decoderVars>>
configVars == <<settingVars, answered>>
retryVars == <<missing_tool_retry, bad_validation_retry, recoverable_retry, recoverable_hint_retry>>
batchVars == <<batch, batch_pos, validation_errors, success_calls, recoverable_errors, turn_calls>>
requestVars == <<sent, tool_choice, turns, tools_attached>>
localVars == <<strict_mode, turns, missing_tool_retry, bad_validation_retry, recoverable_retry,
               recoverable_hint_retry, errors, batch, batch_pos, validation_errors,
               success_calls, recoverable_errors, turn_calls, cut, sent, tool_choice,
               tools_attached, last_nonempty_answer, traced, log0>>

\* chat returns or raises: its locals and its request are gone
Leave(how) ==
    /\ pc' = "idle"
    /\ returned' = how
    /\ strict_mode' = FALSE
    /\ turns' = 0
    /\ missing_tool_retry' = 0
    /\ bad_validation_retry' = 0
    /\ recoverable_retry' = 0
    /\ recoverable_hint_retry' = 0
    /\ errors' = 0
    /\ batch' = <<>>
    /\ batch_pos' = 0
    /\ validation_errors' = 0
    /\ success_calls' = 0
    /\ recoverable_errors' = 0
    /\ turn_calls' = <<>>
    /\ cut' = FALSE
    /\ sent' = <<>>
    /\ tool_choice' = ""
    /\ tools_attached' = FALSE
    /\ last_nonempty_answer' = <<>>
    /\ traced' = <<>>
    /\ log0' = <<>>

\* chat(user_text, bridge, mode) up to the head of its loop (lines 1082-1102)
ChatStart(mode) ==
    /\ pc = "idle"
    /\ chats < MaxChats
    /\ LET log == Append(EnsureSystemPrompt(messages, mode, active_chat_mode), UserMsg(<<"u">>))
       IN  messages' = TrimNow(log)
    /\ phase' = "trimmed"
    /\ active_chat_mode' = mode
    /\ strict_mode' = (mode = "strict")
    /\ missing_tool_retry' = 0
    /\ bad_validation_retry' = 0
    /\ recoverable_retry' = 0
    /\ recoverable_hint_retry' = 0
    /\ errors' = 0
    /\ turns' = 0
    /\ batch' = <<>>
    /\ batch_pos' = 0
    /\ validation_errors' = 0
    /\ success_calls' = 0
    /\ recoverable_errors' = 0
    /\ turn_calls' = <<>>
    /\ cut' = FALSE
    /\ chats' = chats + 1
    /\ returned' = "none"
    /\ pc' = "loop"
    /\ last_nonempty_answer' = <<>>
    /\ traced' = <<>>
    /\ result' = <<>>
    /\ asked' = 0
    /\ fatal_run' = 0
    /\ log0' = messages
    /\ answered' = ""
    /\ UNCHANGED <<settingVars, valVars, logIn, sent, tool_choice, tools_attached, stream,
                   requests, load_ok>>

\* _stream_assistant_turn up to the request: trim, then send the log
\* (lines 856-876); tool_choice is "none" once the loop has used its turns
Request ==
    /\ pc = "loop"
    /\ profile = "any" => requests < MaxRequests
    /\ requests' = IF profile = "any" THEN requests + 1 ELSE requests
    /\ messages' = TrimNow(messages)
    /\ phase' = "trimmed"
    /\ sent' = messages'
    /\ tool_choice' = IF turns < max_turns THEN "auto" ELSE "none"
    /\ turns' = IF turns < max_turns THEN turns + 1 ELSE turns
    /\ cut' = (cut \/ Cuts(messages))
    /\ tools_attached' = ToolsAttached(tool_choice')
    /\ stream' = "open"
    /\ asked' = asked + 1
    /\ pc' = "await"
    /\ UNCHANGED <<configVars, valVars, logIn, retryVars, batchVars, errors,
                   active_chat_mode, strict_mode, chats, returned, load_ok,
                   last_nonempty_answer, traced, result, fatal_run, log0>>

\* an interrupt that commits what had been streamed and leaves the stream open
StreamInterruptKeepsPartial ==
    /\ pc = "await"
    /\ profile = "any"
    /\ Leave("stream_interrupt")
    /\ messages' = Append(messages, AssistantMsg(<<"x">>, <<>>, <<>>))
    /\ result' = <<>>
    /\ UNCHANGED <<max_context_messages, max_context_chars, phase, logIn, valVars, configVars,
                   active_chat_mode, chats, requests, load_ok, asked, fatal_run, stream>>

\* KeyboardInterrupt while streaming: UserInterruptError leaves chat (976-981)
StreamInterrupt ==
    /\ pc = "await"
    /\ profile = "any"
    /\ Leave("stream_interrupt")
    /\ stream' = "closed"
    /\ result' = <<>>
    /\ UNCHANGED <<logVars, valVars, configVars, active_chat_mode, chats, requests, load_ok,
                   asked, fatal_run>>

\* a stream error: RuntimeError leaves chat (982-991)
StreamError ==
    /\ pc = "await"
    /\ profile = "any"
    /\ Leave("stream_error")
    /\ stream' = "closed"
    /\ result' = <<>>
    /\ UNCHANGED <<logVars, valVars, configVars, active_chat_mode, chats, requests, load_ok,
                   asked, fatal_run>>

\* the model's answer to a tool_choice="auto" request
Answers(t) ==
    /\ pc = "await"
    /\ tool_choice = "auto"
    /\ t \in TurnUniverse
    /\ t \in ProfileTurns(profile)

\* the corrective injections stop one short of the limit
RetryRuleOneLess(t) ==
    IF missing_tool_retry + 1 < max_missing_tool_retry THEN NoToolRule(t, strict_mode) ELSE ""

\* the rule of the no-tool table that applies to the turn
RetryRule(t) ==
    IF missing_tool_retry < max_missing_tool_retry THEN NoToolRule(t, strict_mode) ELSE ""

\* a turn with tool calls: commit it and trim (lines 1331-1337)
ToolTurn(t) ==
    /\ Answers(t)
    /\ TurnCalls(t) # <<>>
    /\ LET committed == Append(messages, HistoryMsg(t))
       IN  /\ messages' = TrimNow(committed)
           /\ cut' = Cuts(committed)
    /\ phase' = "trimmed"
    /\ stream' = "drained"
    /\ last_nonempty_answer' = LastAnswer(t, last_nonempty_answer)
    /\ missing_tool_retry' = 0
    /\ batch' = TurnCalls(t)
    /\ batch_pos' = 1
    /\ validation_errors' = 0
    /\ success_calls' = 0
    /\ recoverable_errors' = 0
    /\ turn_calls' = <<>>
    /\ pc' = "dispatch"
    /\ UNCHANGED <<configVars, valVars, logIn, requestVars, requests, bad_validation_retry,
                   recoverable_retry,
                   recoverable_hint_retry, errors, active_chat_mode, strict_mode, chats,
                   returned, load_ok, traced, result, asked, fatal_run, log0>>

\* a turn without tool calls that a rule of the table sends back to the model
\* (lines 1179-1314)
RetryTurn(t) ==
    /\ Answers(t)
    /\ TurnCalls(t) = <<>>
    /\ RetryRule(t) # ""
    /\ LET committed == Append(messages, HistoryMsg(t))
           injected  == Append(TrimNow(committed), UserMsg(<<RetryRule(t)>>))
       IN  /\ messages' = TrimNow(injected)
           /\ cut' = (cut \/ Cuts(committed) \/ Cuts(injected))
    /\ phase' = "trimmed"
    /\ stream' = "drained"
    /\ last_nonempty_answer' = LastAnswer(t, last_nonempty_answer)
    /\ missing_tool_retry' = missing_tool_retry + 1
    /\ batch' = <<>>
    /\ pc' = "loop"
    /\ UNCHANGED <<configVars, valVars, logIn, requestVars, requests, bad_validation_retry,
                   recoverable_retry,
                   recoverable_hint_retry, errors, batch_pos, validation_errors, success_calls,
                   recoverable_errors, turn_calls, active_chat_mode, strict_mode, chats,
                   returned, load_ok, traced, result, asked, fatal_run, log0>>

\* a turn without tool calls that ends the chat (lines 1315-1330)
FinalTurn(t) ==
    /\ Answers(t)
    /\ TurnCalls(t) = <<>>
    /\ RetryRule(t) = ""
    /\ messages' = TrimNow(Append(messages, HistoryMsg(t)))
    /\ phase' = "trimmed"
    /\ stream' = "drained"
    /\ result' = FinalText(t, traced)
    /\ Leave("final")
    /\ UNCHANGED <<configVars, valVars, logIn, active_chat_mode, chats, requests, load_ok,
                   asked, fatal_run>>

\* the answer to the tool_choice="none" request, appended as it came
\* (lines 1526-1538)
SummaryTurn(t) ==
    /\ pc = "await"
    /\ tool_choice = "none"
    /\ t \in SummaryUniverse
    /\ LET summary_msg == [AssistantMsg(t.content, t.reasoning_content, <<>>)
                             EXCEPT !.meta = MetaKeys]
       IN  messages' = TrimNow(Append(messages, summary_msg))
    /\ phase' = "trimmed"
    /\ stream' = "drained"
    /\ result' = SummaryText(t, last_nonempty_answer)
    /\ Leave("summary")
    /\ UNCHANGED <<configVars, valVars, logIn, active_chat_mode, chats, requests, load_ok,
                   asked, fatal_run>>

\* the loop over the turn's calls moves on (line 1338)
NextCall ==
    /\ batch_pos' = batch_pos + 1
    /\ pc' = IF batch_pos < Len(batch) THEN "dispatch" ELSE "after_batch"

\* append a tool result and trim (lines 1464-1465)
AppendResult(tc, content) ==
    LET appended == Append(messages, ToolMsg(tc.id, content))
    IN  /\ messages' = TrimNow(appended)
        /\ cut' = (cut \/ Cuts(appended))
        /\ phase' = "trimmed"
        /\ UNCHANGED logIn

\* a call whose arguments fail validation: report it, call nothing, go on
\* (lines 1342-1347; the log is not trimmed here)
DispatchInvalid ==
    /\ pc = "dispatch"
    /\ Route(batch[batch_pos], dangerous_policy, "n") = "invalid"
    /\ messages' = Append(messages,
                          ToolMsg(batch[batch_pos].id, ValidationContent(batch[batch_pos])))
    /\ phase' = "appended"
    /\ validation_errors' = validation_errors + 1
    /\ fatal_run' = 0
    /\ NextCall
    /\ UNCHANGED <<configVars, valVars, requestVars, retryVars, errors, logIn, batch,
                   success_calls, recoverable_errors, turn_calls, cut, active_chat_mode,
                   strict_mode, chats, requests, returned, load_ok,
                   stream, last_nonempty_answer, traced, result, asked, log0>>

\* KeyboardInterrupt at the confirmation prompt (line 1370) leaves chat
ConfirmInterrupt ==
    /\ pc = "dispatch"
    /\ Asks(batch[batch_pos], dangerous_policy)
    /\ profile = "any"
    /\ Leave("keyboard_interrupt")
    /\ result' = <<>>
    /\ UNCHANGED <<logVars, valVars, configVars, active_chat_mode, chats, requests, load_ok,
                   stream, asked, fatal_run>>

\* line 1370: the answer when the guard asks for one
Answer(yn) == IF Asks(batch[batch_pos], dangerous_policy) THEN yn ELSE answered

\* DispatchDeclined that clears the fatal errors counted so far
DispatchDeclinedResetsErrors(yn) ==
    /\ pc = "dispatch"
    /\ Route(batch[batch_pos], dangerous_policy, yn) = "declined"
    /\ AppendResult(batch[batch_pos], <<"declined">>)
    /\ recoverable_errors' = recoverable_errors + 1
    /\ errors' = 0
    /\ traced' = Trace(traced, batch[batch_pos])
    /\ fatal_run' = 0
    /\ answered' = Answer(yn)
    /\ NextCall
    /\ UNCHANGED <<settingVars, valVars, requestVars, retryVars, batch,
                   validation_errors, success_calls, turn_calls, active_chat_mode,
                   strict_mode, chats, requests, returned, load_ok,
                   stream, last_nonempty_answer, result, asked, log0>>

\* a dangerous command the guard declines (lines 1361-1388)
DispatchDeclined(yn) ==
    /\ pc = "dispatch"
    /\ Route(batch[batch_pos], dangerous_policy, yn) = "declined"
    /\ AppendResult(batch[batch_pos], <<"declined">>)
    /\ recoverable_errors' = recoverable_errors + 1
    /\ traced' = Trace(traced, batch[batch_pos])
    /\ fatal_run' = 0
    /\ answered' = Answer(yn)
    /\ NextCall
    /\ UNCHANGED <<settingVars, valVars, requestVars, retryVars, errors, batch,
                   validation_errors, success_calls, turn_calls, active_chat_mode,
                   strict_mode, chats, requests, returned, load_ok,
                   stream, last_nonempty_answer, result, asked, log0>>

\* the call goes to bridge.call_tool or to the save-script wrapper
Called(yn, end) ==
    /\ pc = "dispatch"
    /\ Route(batch[batch_pos], dangerous_policy, yn) \in {"wrapper", "bridge"}
    /\ end \in ProfileOutcomes(profile, batch_pos)
    /\ traced' = Trace(traced, batch[batch_pos])
    /\ answered' = Answer(yn)
    /\ turn_calls' = Append(turn_calls, [via |-> Route(batch[batch_pos], dangerous_policy, yn),
                                         tc |-> batch[batch_pos], end |-> end])

\* the call succeeds (lines 1396, 1435-1439, 1464-1465)
DispatchOk(yn) ==
    /\ Called(yn, "ok")
    /\ AppendResult(batch[batch_pos], ResultContent("ok"))
    /\ errors' = 0
    /\ success_calls' = success_calls + 1
    /\ fatal_run' = 0
    /\ NextCall
    /\ UNCHANGED <<settingVars, valVars, requestVars, retryVars, batch, validation_errors,
                   recoverable_errors, active_chat_mode, strict_mode, chats, requests,
                   returned, load_ok, stream, last_nonempty_answer, result, asked, log0>>

\* the call returns an error marked recoverable (lines 1420-1422)
DispatchRecoverable(yn) ==
    /\ Called(yn, "recoverable")
    /\ AppendResult(batch[batch_pos], ResultContent("recoverable"))
    /\ recoverable_errors' = recoverable_errors + 1
    /\ fatal_run' = 0
    /\ NextCall
    /\ UNCHANGED <<settingVars, valVars, requestVars, retryVars, errors, batch,
                   validation_errors, success_calls, active_chat_mode, strict_mode, chats,
                   requests, returned, load_ok, stream, last_nonempty_answer, result, asked,
                   log0>>

\* a raised exception that ends the loop over the batch
DispatchErrorStopsBatch(yn, end) ==
    /\ Called(yn, end)
    /\ end \in FatalEnds
    /\ errors' = errors + 1
    /\ AppendResult(batch[batch_pos], ResultContent("error"))
    /\ fatal_run' = fatal_run + 1
    /\ batch_pos' = batch_pos + 1
    /\ pc' = IF batch_pos < Len(batch) /\ end # "raised" THEN "dispatch" ELSE "after_batch"
    /\ ~TooManyErrors(errors + 1)
    /\ UNCHANGED <<settingVars, valVars, requestVars, retryVars, batch, validation_errors,
                   success_calls, recoverable_errors, active_chat_mode, strict_mode, chats,
                   requests, returned, load_ok, stream, last_nonempty_answer, result, asked,
                   log0>>

\* the call returns an error, or raises one that chat turns into an error
\* result (lines 1399-1407, 1423-1424)
DispatchError(yn, end) ==
    /\ Called(yn, end)
    /\ end \in FatalEnds
    /\ errors' = errors + 1
    /\ AppendResult(batch[batch_pos], ResultContent("error"))
    /\ fatal_run' = fatal_run + 1
    /\ NextCall
    /\ ~TooManyErrors(errors + 1)
    /\ UNCHANGED <<settingVars, valVars, requestVars, retryVars, batch, validation_errors,
                   success_calls, recoverable_errors, active_chat_mode, strict_mode, chats,
                   requests, returned, load_ok, stream, last_nonempty_answer, result, asked,
                   log0>>

\* the fourth error in a row ends the chat (lines 1425-1434)
DispatchHalt(yn) ==
    /\ pc = "dispatch"
    /\ Route(batch[batch_pos], dangerous_policy, yn) \in {"wrapper", "bridge"}
    /\ FatalEnds \cap ProfileOutcomes(profile, batch_pos) # {}
    /\ TooManyErrors(errors + 1)
    /\ Leave("halt")
    /\ fatal_run' = fatal_run + 1
    /\ result' = StoppedText
    /\ answered' = Answer(yn)
    /\ UNCHANGED <<logVars, valVars, settingVars, active_chat_mode, chats, requests, load_ok,
                   stream, asked>>

\* KeyboardInterrupt during the call: UserInterruptError leaves chat (1397-1398)
DispatchInterrupt(yn) ==
    /\ pc = "dispatch"
    /\ Route(batch[batch_pos], dangerous_policy, yn) \in {"wrapper", "bridge"}
    /\ profile = "any"
    /\ Leave("tool_interrupt")
    /\ result' = <<>>
    /\ answered' = Answer(yn)
    /\ UNCHANGED <<logVars, valVars, settingVars, active_chat_mode, chats, requests, load_ok,
                   stream, asked, fatal_run>>

\* the prompts with the ceilings of the two recoverable counters swapped
BatchPromptCeilingsSwapped ==
    CASE recoverable_errors > 0 /\ success_calls > 0 /\ validation_errors = 0
            /\ recoverable_hint_retry < max_recoverable_retry      -> "retry_failed_only"
      [] recoverable_errors > 0 /\ success_calls = 0 /\ validation_errors = 0
            /\ recoverable_retry < max_recoverable_hint_retry      -> "repair_and_resend"
      [] validation_errors > 0 /\ success_calls = 0
            /\ bad_validation_retry < max_bad_validation_retry     -> "fix_arguments"
      [] OTHER                                                     -> ""

\* the validation prompt whether or not a call of the batch succeeded
BatchPromptDespiteSuccess ==
    CASE recoverable_errors > 0 /\ success_calls > 0 /\ validation_errors = 0
            /\ recoverable_hint_retry < max_recoverable_hint_retry -> "retry_failed_only"
      [] recoverable_errors > 0 /\ success_calls = 0 /\ validation_errors = 0
            /\ recoverable_retry < max_recoverable_retry           -> "repair_and_resend"
      [] validation_errors > 0
            /\ bad_validation_retry < max_bad_validation_retry     -> "fix_arguments"
      [] OTHER                                                     -> ""

\* the prompt chat injects after the batch, "" for none (lines 1467-1520)
BatchPrompt ==
    CASE recoverable_errors > 0 /\ success_calls > 0 /\ validation_errors = 0
            /\ recoverable_hint_retry < max_recoverable_hint_retry -> "retry_failed_only"
      [] recoverable_errors > 0 /\ success_calls = 0 /\ validation_errors = 0
            /\ recoverable_retry < max_recoverable_retry           -> "repair_and_resend"
      [] validation_errors > 0 /\ success_calls = 0
            /\ bad_validation_retry < max_bad_validation_retry     -> "fix_arguments"
      [] OTHER                                                     -> ""

\* past the loop over the calls: inject a prompt or reset the retry counters
\* (lines 1467-1525)
AfterBatch ==
    /\ pc = "after_batch"
    /\ IF BatchPrompt # ""
       THEN LET injected == Append(messages, UserMsg(<<BatchPrompt>>))
            IN  /\ messages' = TrimNow(injected)
                /\ cut' = (cut \/ Cuts(injected))
                /\ phase' = "trimmed"
       ELSE UNCHANGED <<messages, cut, phase>>
    /\ recoverable_hint_retry' =
           IF BatchPrompt = "retry_failed_only" THEN recoverable_hint_retry + 1
           ELSE IF BatchPrompt = "" /\ success_calls > 0 /\ recoverable_errors = 0 THEN 0
           ELSE recoverable_hint_retry
    /\ recoverable_retry' =
           IF BatchPrompt = "repair_and_resend" THEN recoverable_retry + 1
           ELSE IF BatchPrompt = "" /\ success_calls > 0 /\ recoverable_errors = 0 THEN 0
           ELSE recoverable_retry
    /\ bad_validation_retry' =
           IF BatchPrompt = "fix_arguments" THEN bad_validation_retry + 1
           ELSE IF BatchPrompt = "" /\ success_calls > 0 THEN 0
           ELSE bad_validation_retry
    /\ pc' = "loop"
    /\ UNCHANGED <<configVars, valVars, logIn, requestVars, missing_tool_retry, errors, batchVars,
                   active_chat_mode, strict_mode, chats, requests, returned, load_ok,
                   stream, last_nonempty_answer, traced, result, asked, fatal_run, log0>>

\* reset() (lines 328-330); with an empty log it raises and changes nothing
Reset ==
    /\ pc = "idle"
    /\ messages # <<>>
    /\ messages' = <<messages[1]>>
    /\ phase' = "reset"
    /\ UNCHANGED <<configVars, valVars, requestVars, retryVars, errors, logIn, batchVars,
                   cut, active_chat_mode, strict_mode, chats, requests, returned, load_ok, pc,
                   stream, last_nonempty_answer, traced, result, asked, fatal_run, log0>>

\* a list with an entry that is not a dict is loaded up to that entry
LoadSessionLoadsPrefix(s) ==
    /\ pc = "idle"
    /\ LET ok == /\ s.kind = "list"
                 /\ s.messages # <<>>
                 /\ \A i \in 1..Len(s.messages) : s.messages[i] # NonDict
           some == s.kind = "list" /\ s.messages # <<>> /\ s.messages[1] # NonDict
       IN  /\ load_ok' = ok
           /\ messages' = IF ok THEN s.messages
                           ELSE IF some THEN <<s.messages[1]>> ELSE messages
           /\ phase' = IF ok THEN "loaded" ELSE phase
           /\ model' = IF ok THEN SessionModel(s.model, model) ELSE model
           /\ summary_model' = IF ok THEN SessionModel(s.summary_model, summary_model)
                                ELSE summary_model
    /\ UNCHANGED <<max_context_messages, max_context_chars, dangerous_policy, profile, debug,
                   dangerous_allow_regex, dangerous_extra_deny_regex, rpcVars, decoderVars, answered, valVars, requestVars, retryVars, errors, logIn, batchVars, cut,
                   active_chat_mode, strict_mode, chats, requests, returned, pc,
                   stream, last_nonempty_answer, traced, result, asked, fatal_run, log0>>

\* export_session() (lines 332-333)
ExportSession(log, m, sm) == Session("list", log, StrVal(m), StrVal(sm))

\* the tests load_session makes before it assigns anything (lines 336-341)
LoadAccepts(s) ==
    /\ s.kind = "list"
    /\ s.messages # <<>>
    /\ \A i \in 1..Len(s.messages) : s.messages[i] # NonDict

\* load_session(session_data) (lines 335-349)
LoadSession(s) ==
    /\ pc = "idle"
    /\ LET ok == LoadAccepts(s)
       IN  /\ load_ok' = ok
           /\ messages' = IF ok THEN s.messages ELSE messages
           /\ phase' = IF ok THEN "loaded" ELSE phase
           /\ model' = IF ok THEN SessionModel(s.model, model) ELSE model
           /\ summary_model' = IF ok THEN SessionModel(s.summary_model, summary_model)
                                ELSE summary_model
    /\ UNCHANGED <<max_context_messages, max_context_chars, dangerous_policy, profile, debug,
                   dangerous_allow_regex, dangerous_extra_deny_regex, rpcVars, decoderVars, answered, valVars, requestVars, retryVars, errors, logIn, batchVars, cut,
                   active_chat_mode, strict_mode, chats, requests, returned, pc,
                   stream, last_nonempty_answer, traced, result, asked, fatal_run, log0>>

\* the operations of an analyzer that loads no session file
NextChat ==
    \/ \E mode \in {"strict", "loose"} : ChatStart(mode)
    \/ Request
    \/ StreamInterrupt
    \/ StreamError
    \/ \E t \in TurnUniverse : ToolTurn(t)
    \/ \E t \in TurnUniverse : RetryTurn(t)
    \/ \E t \in TurnUniverse : FinalTurn(t)
    \/ \E t \in SummaryUniverse : SummaryTurn(t)
    \/ DispatchInvalid
    \/ ConfirmInterrupt
    \/ \E yn \in {"y", "n"} : DispatchDeclined(yn)
    \/ \E yn \in {"y", "n"} : DispatchOk(yn)
    \/ \E yn \in {"y", "n"} : DispatchRecoverable(yn)
    \/ \E yn \in {"y", "n"}, end \in FatalEnds : DispatchError(yn, end)
    \/ \E yn \in {"y", "n"} : DispatchHalt(yn)
    \/ \E yn \in {"y", "n"} : DispatchInterrupt(yn)
    \/ AfterBatch
    \/ Reset

Next ==
    \/ NextChat
    \/ \E s \in ChatSessions : LoadSession(s)

Spec == Init /\ [][Next]_vars

\* chats and resets of an analyzer that was constructed and loads nothing
SpecChat == Init /\ [][NextChat]_vars

(***************************************************************************)
(* load_session and reset applied to an analyzer between chats             *)
(***************************************************************************)
\* logs an analyzer holds when a session file is loaded
SessionLogs ==
    { <<SystemMsg(SystemPrompt("loose"))>>,
      <<SystemMsg(SystemPrompt("strict")), UserMsg(<<"q">>)>>,
      <<SystemMsg(SystemPrompt("loose")), UserMsg(<<"q">>), AssistantMsg(<<"x">>, <<>>, <<>>)>>,
      <<SystemMsg(SystemPrompt("loose")), UserMsg(<<"q">>),
        AssistantMsg(<<>>, <<>>, <<COk>>), ToolMsg(IdA, <<"r">>)>> }

InitSession ==
    /\ messages \in SessionLogs
    /\ max_context_messages = MAX_CONTEXT_MESSAGES
    /\ max_context_chars = MAX_CONTEXT_CHARS
    /\ phase = "init"
    /\ logIn = <<>>
    /\ ValIdle
    /\ ChatIdle

NextSession ==
    \/ \E s \in SessionUniverse : LoadSession(s)
    \/ Reset

SpecSession == InitSession /\ [][NextSession]_vars


(***************************************************************************)
(* Properties of sanitize and trim                                         *)
(***************************************************************************)
ToolCallIds(m) == {m.tool_calls[k].id : k \in 1..Len(m.tool_calls)}

\* index of the message that opens the tool run position i lies in (0 if none)
RECURSIVE RunOpener(_, _)
RunOpener(log, i) ==
    IF i = 0 THEN 0
    ELSE IF log[i].role = "tool" THEN RunOpener(log, i - 1) ELSE i

RunIds(log, i) == {log[q].tool_call_id : q \in (i + 1)..(RunEnd(log, i + 1) - 1)}

Pairing(log) ==
    /\ \A i \in 1..Len(log) :
          log[i].role = "tool" =>
              LET a == RunOpener(log, i)
              IN  /\ a > 0
                  /\ log[a].role = "assistant"
                  /\ log[i].tool_call_id \in ToolCallIds(log[a])
    /\ \A i \in 1..Len(log) :
          log[i].role = "assistant" => ToolCallIds(log[i]) \subseteq RunIds(log, i)

\* C1: after every _trim_messages pass every tool message lies in the run
\* directly after an assistant message whose tool_calls contains its
\* tool_call_id, and every id in a retained tool_calls has a tool message with
\* that id in the run directly after it.
C1_PairingAfterTrim == phase = "trimmed" => Pairing(messages)

\* C5: after _trim_messages the message at index 1 (if present) never has role
\* tool.
C5_NoLeadingTool ==
    (phase = "trimmed" /\ Len(messages) >= 2) => messages[2].role # "tool"

\* the log the character phase starts from, and its most recent atomic block
CharPhaseInput == CountPhase(Sanitize(logIn), max_context_messages)

LastBlock(log) ==
    IF Len(log) <= 1 THEN <<>>
    ELSE LET blocks == Blocks(Tail(log), 1) IN blocks[Len(blocks)]

\* C4 as stated: after _trim_messages the whole log is at most C characters,
\* except when the most recent atomic block alone is larger than C, and then
\* the log is message 0 followed by that one block.
C4_BudgetBlockAlone ==
    phase = "trimmed" =>
        \/ LogSize(messages) <= max_context_chars
        \/ /\ LogSize(LastBlock(CharPhaseInput)) > max_context_chars
           /\ messages = <<CharPhaseInput[1]>> \o LastBlock(CharPhaseInput)

\* C4 (amended): after _trim_messages the whole log is at most C characters,
\* except when message 0 together with the most recent atomic block is larger
\* than C, and then the log is message 0 followed by that one block, less the
\* tool messages the block starts with.
C4_BudgetWithSystem ==
    phase = "trimmed" =>
        \/ LogSize(messages) <= max_context_chars
        \/ /\ MsgSize(CharPhaseInput[1]) + LogSize(LastBlock(CharPhaseInput))
                  > max_context_chars
           /\ messages = <<CharPhaseInput[1]>>
                             \o DropLeadingTools(LastBlock(CharPhaseInput))

\* the amended exception with a block that alone fits the budget
C4_Witness ==
    /\ phase = "trimmed"
    /\ LogSize(messages) > max_context_chars
    /\ Len(messages) >= 2
    /\ messages[1].role = "system"
    /\ LogSize(Tail(messages)) <= max_context_chars

\* C6: _sanitize_messages_for_tools is idempotent: the second application
\* returns the log the first one produced.
C6_SanitizeIdempotent == phase = "sanitized2" => messages = logIn

\* a second pass over a log in which the first pass fabricated an id
C6_Witness ==
    /\ phase = "sanitized2"
    /\ \E i \in 1..Len(messages) : FixupId(1, 1) \in ToolCallIds(messages[i])

\* what the block of one assistant message with tool_calls becomes: an entry
\* is answered iff (it has a function name, when needName) and a tool message
\* of the run carries its id (whitespace trimmed, a missing id replaced by its
\* positional placeholder)
RefBlock(msg, run, n, needName) ==
    LET tcs    == msg.tool_calls
        eff(k) == IF Strip(tcs[k].id) = <<>> THEN FixupId(n, k - 1) ELSE Strip(tcs[k].id)
        ans    == {k \in 1..Len(tcs) :
                      /\ needName => ~Blank(tcs[k].name)
                      /\ \E q \in 1..Len(run) : Strip(run[q].tool_call_id) = eff(k)}
        withId == [k \in 1..Len(tcs) |->
                      IF Strip(tcs[k].id) = <<>> THEN [tcs[k] EXCEPT !.id = eff(k)]
                      ELSE tcs[k]]
        tools  == FilterSeq(run, {q \in 1..Len(run) :
                      \E k \in ans : Strip(run[q].tool_call_id) = eff(k)})
    IN  IF ans = {} /\ Blank(msg.content) /\ Blank(msg.reasoning_content)
        THEN <<>>
        ELSE <<[msg EXCEPT !.tool_calls = FilterSeq(withId, ans)]>> \o tools

RECURSIVE RefSanitize(_, _, _, _)
RefSanitize(log, i, out, needName) ==
    IF i > Len(log) THEN out
    ELSE IF log[i].role = "tool" THEN RefSanitize(log, i + 1, out, needName)
    ELSE IF log[i].role = "assistant" /\ log[i].tool_calls # <<>>
    THEN LET j == RunEnd(log, i + 1)
         IN  RefSanitize(log, j,
                 out \o RefBlock(log[i], SubSeq(log, i + 1, j - 1), Len(out), needName),
                 needName)
    ELSE RefSanitize(log, i + 1, Append(out, log[i]), needName)

\* C7 as stated: sanitize removes exactly the tool_call entries whose id has no
\* matching tool message in the run directly after the assistant message,
\* keeps the answered entries in order with their tool messages, and drops the
\* assistant message only when no entry survives and content and
\* reasoning_content are blank.
C7_RemovesExactlyUnanswered ==
    phase = "sanitized" => messages = RefSanitize(logIn, 1, <<>>, FALSE)

\* C7 (amended): sanitize removes exactly the tool_call entries that have no
\* function name or whose id has no matching tool message in the run directly
\* after the assistant message; the rest as stated.
C7_RemovesUnansweredOrNameless ==
    phase = "sanitized" => messages = RefSanitize(logIn, 1, <<>>, TRUE)

\* scenario A: tc2 unanswered
C7_Witness ==
    /\ phase = "sanitized"
    /\ \E c \in {<<" ">>, <<"c">>} :
          /\ logIn = << SystemMsg(<<"s">>),
                        AssistantMsg(c, <<>>, <<ToolCall(IdA, NameT, EmptyArgs),
                                                ToolCall(IdB, NameT, EmptyArgs)>>),
                        ToolMsg(IdA, <<"r">>) >>
          /\ messages = << SystemMsg(<<"s">>),
                           AssistantMsg(c, <<>>, <<ToolCall(IdA, NameT, EmptyArgs)>>),
                           ToolMsg(IdA, <<"r">>) >>

\* messages sanitize passes through untouched
PassThrough(m) == m.role \in {"system", "user"} \/ (m.role = "assistant" /\ m.tool_calls = <<>>)

\* o is what m may become: m itself, or m with another tool_calls list
ImageOf(m, o) == IF PassThrough(m) THEN o = m ELSE [o EXCEPT !.tool_calls = m.tool_calls] = m

\* out is in, in order, with some messages that are not passed through left out
RECURSIVE Embeds(_, _)
Embeds(out, in) ==
    IF in = <<>> THEN out = <<>>
    ELSE \/ /\ out # <<>>
            /\ ImageOf(Head(in), Head(out))
            /\ Embeds(Tail(out), Tail(in))
         \/ /\ ~PassThrough(Head(in))
            /\ Embeds(out, Tail(in))

\* C8: the output of sanitize is a subsequence of its input in the same order;
\* every system, user and tool_calls-free assistant message is retained
\* unchanged, and every retained message keeps its content.
C8_SanitizeSubsequence == phase = "sanitized" => Embeds(messages, logIn)

\* a pass that dropped a message and retained a block
C8_Witness ==
    /\ phase = "sanitized"
    /\ Len(messages) < Len(logIn)
    /\ \E i \in 1..Len(messages) : messages[i].role = "tool"


(***************************************************************************)
(* Properties of validate_args                                             *)
(***************************************************************************)
\* the runtime type a declared primitive type stands for ("" for no check)
DeclaredRuntime(t) ==
    CASE t = "string" -> "str" [] t = "integer" -> "int" [] t = "boolean" -> "bool"
      [] t = "object" -> "dict" [] t = "array" -> "list" [] OTHER -> ""

ExpectedRules(name, args) ==
    IF name \notin DOMAIN ToolSpecs THEN {"unknown_tool"}
    ELSE LET props == ToolSpecs[name].properties
             req   == ToolSpecs[name].required
             val(k) == (CHOOSE e \in {args[i] : i \in 1..Len(args)} : e.key = k).val
         IN  IF \E k \in Keys(args) : k \notin DOMAIN props THEN {"undefined_param"}
             ELSE IF \E i \in 1..Len(req) :
                        \/ req[i] \notin Keys(args)
                        \/ /\ req[i] \in DOMAIN props
                           /\ props[req[i]] = "string"
                           /\ Blank(val(req[i]).text)
             THEN {"missing", "blank"}
             ELSE IF \E k \in Keys(args) :
                        /\ DeclaredRuntime(props[k]) # ""
                        /\ val(k).type # DeclaredRuntime(props[k])
             THEN {"type"}
             ELSE {"none"}

\* C10: validate_args returns the error of the first violated rule in the
\* order unknown tool, undefined parameter, required field missing or (declared
\* string) blank, type mismatch, and no error exactly when none is violated;
\* the runtime type must be exactly the declared one (a boolean is no integer,
\* an integer no boolean).
C10_FirstViolatedRule ==
    phase = "validated" => verdict.rule \in ExpectedRules(call.name, call.args)

\* a boolean supplied where integer is declared, all earlier rules satisfied
C10_Witness ==
    /\ phase = "validated"
    /\ call.name = "t"
    /\ \E i \in 1..Len(call.args) : call.args[i].key = "n" /\ call.args[i].val = BoolVal
    /\ verdict = ValidationError("type", "n")

(***************************************************************************)
(* Properties of chat                                                      *)
(***************************************************************************)
BatchIds(b) == [i \in 1..Len(b) |-> b[i].id]

\* log holds an assistant message listing exactly the calls of b, directly
\* followed by exactly one tool message per call, in the order of b
ListsThenAnswers(log, b) ==
    \E i \in 1..Len(log) :
        /\ log[i].role = "assistant"
        /\ BatchIds(log[i].tool_calls) = BatchIds(b)
        /\ i + Len(b) <= Len(log)
        /\ \A j \in 1..Len(b) : /\ log[i + j].role = "tool"
                                /\ log[i + j].tool_call_id = b[j].id
        /\ (i + Len(b) = Len(log) \/ log[i + Len(b) + 1].role # "tool")

\* C2: when every call of a turn's batch was executed and no ceiling removed
\* anything, the next model request carries the assistant message that lists
\* the batch, directly followed by one tool message per call in call order.
C2_NextRequestCarriesBatch ==
    (pc = "await" /\ batch # <<>> /\ Len(turn_calls) = Len(batch) /\ ~cut)
        => ListsThenAnswers(sent, batch)

\* C3: after every trim pass in a run of __init__, chat, reset and
\* load_session the log is non-empty and starts with the system message.
C3_SystemFirst ==
    phase = "trimmed" => (messages # <<>> /\ messages[1].role = "system")

\* the arguments text is no JSON object, or the object fails validate_args
Invalid(tc) ==
    \/ tc.arguments.kind \in {"invalid", "nonobject"}
    \/ ValidateArgs(NameStr(tc.name),
                    IF tc.arguments.kind = "object" THEN tc.arguments.obj ELSE <<>>,
                    ToolSpecs) # NoError

\* the step chat takes on a call that fails validation
ReportsAndMovesOn ==
    /\ turn_calls' = turn_calls
    /\ Len(messages') = Len(messages) + 1
    /\ SubSeq(messages', 1, Len(messages)) = messages
    /\ messages'[Len(messages')].role = "tool"
    /\ messages'[Len(messages')].tool_call_id = batch[batch_pos].id
    /\ messages'[Len(messages')].content[1] = "validation_error"
    /\ batch' = batch
    /\ batch_pos' = batch_pos + 1
    /\ pc' = IF batch_pos < Len(batch) THEN "dispatch" ELSE "after_batch"

\* C9: a call whose arguments fail validation or do not parse as a JSON
\* object is never handed to the bridge or to the save-script wrapper; the
\* only step chat takes on it appends a tool message with the error and the
\* call's id and moves on to the next call of the batch.
C9_InvalidNeverDispatched ==
    /\ [](\A i \in 1..Len(turn_calls) : ~Invalid(turn_calls[i].tc))
    /\ [][(pc = "dispatch" /\ Invalid(batch[batch_pos])) => ReportsAndMovesOn]_vars

\* an invalid call was reported and a later call of the same batch was handed
\* to the bridge
C9_Witness ==
    /\ pc = "after_batch"
    /\ validation_errors > 0
    /\ turn_calls # <<>>
    /\ Invalid(batch[1])

(***************************************************************************)
(* The end of a chat                                                       *)
(***************************************************************************)
\* C11: once four tool calls in a row of one chat have ended in a fatal
\* error, the chat is over: it has returned the diagnostic text, and so it
\* hands no further call to the bridge and sends no further model request.
C11_HaltsAfterFourFatal ==
    fatal_run >= 4 => pc = "idle" /\ returned = "halt" /\ result = StoppedText

\* the fourth fatal error in a row has ended a chat
C11_Witness == fatal_run = 4 /\ returned = "halt" /\ asked = 4

\* the step by which chat returns after the tool_choice="none" request
SummaryReturns == pc = "await" /\ tool_choice = "none" /\ pc' = "idle" /\ returned' = "summary"

\* C12: a chat sends at most 24 requests with tool_choice "auto", each with
\* the tools attached, whatever the model and the tools answer and whatever
\* the retry counters stand at; once they are used up it sends exactly one
\* more, with tool_choice "none" and without tools, and returns that answer's
\* text or, if that is blank, the last non-blank answer or, failing that, the
\* default text.
C12_BoundedRequests ==
    /\ [](/\ asked <= 25
          /\ (pc = "await" /\ tool_choice = "auto") => (asked <= 24 /\ tools_attached)
          /\ (pc = "await" /\ tool_choice = "none") => (asked = 25 /\ ~tools_attached)
          /\ returned = "summary" => asked = 25)
    /\ [][SummaryReturns =>
            \E t \in SummaryUniverse :
                result' = IF Strip(t.content) # <<>> THEN Strip(t.content)
                          ELSE IF last_nonempty_answer # <<>> THEN last_nonempty_answer
                          ELSE <<"round over">>]_vars

\* a chat whose every call failed validation used its 24 turns and returned
\* the default text after the last request
C12_Witness ==
    /\ profile = "malformed"
    /\ returned = "summary"
    /\ asked = 25
    /\ result = <<"round over">>

(***************************************************************************)
(* Turns without tool calls                                                *)
(***************************************************************************)
\* the log ends with the user message chat injected
EndsWithInjection(log) == log # <<>> /\ log[Len(log)].role = "user"

\* C13: in strict mode a turn without tool calls and without the report
\* sections is accepted as final only when missing_tool_retry has reached 6;
\* every corrective injection adds one to the counter and leaves the log
\* ending with the injected user message; against a model that always gives
\* the same plain answer without sections a strict chat sends exactly 7
\* requests and returns that answer.
C13_StrictNeedsReport ==
    /\ [][\A t \in TurnUniverse :
            /\ (FinalTurn(t) /\ strict_mode /\ ~InSeq("##report", t.content))
                   => missing_tool_retry = 6
            /\ RetryTurn(t)
                   => /\ missing_tool_retry' = missing_tool_retry + 1
                      /\ missing_tool_retry < 6
                      /\ EndsWithInjection(messages')]_vars
    /\ [](profile = "plain" /\ active_chat_mode = "strict" /\ returned = "final"
              => asked = 7 /\ result = <<"x">>)

\* the strict chat with the model that always gives the plain answer returned
\* it after the seventh request
C13_Witness ==
    /\ profile = "plain"
    /\ active_chat_mode = "strict"
    /\ returned = "final"
    /\ asked = 7
    /\ result = <<"x">>

\* chat handles the turn the model answered with
TurnStep(t) == ToolTurn(t) \/ RetryTurn(t) \/ FinalTurn(t)

\* the answer to a loose chat's request is a turn without tool calls that
\* ended with a terminal finish reason, started its answer and holds no DSML
LoosePlainCase(t) ==
    /\ Answers(t)
    /\ ~strict_mode
    /\ t.tool_calls = <<>>
    /\ t.finish_reason \notin {"", "length"}
    /\ t.answer_started
    /\ ~ContainsDsml(Combined(t))

\* a retry of a loose chat is never one of the two strict rules
NoStrictRuleInLoose ==
    \A t \in TurnUniverse :
        (RetryTurn(t) /\ ~strict_mode) => RetryRule(t) \notin {"missing_tool_call", "no_final_markdown"}

C15_StreamInterruptKeepsLog ==
    [][(pc = "await" /\ returned' = "stream_interrupt")
           => /\ stream = "open"
              /\ stream' = "closed"
              /\ pc' = "idle"
              /\ result' = <<>>
              /\ messages' = sent]_vars

\* a chat was interrupted while an answer was streaming
C15_Witness ==
    /\ returned = "stream_interrupt"
    /\ stream = "closed"
    /\ asked >= 1
    /\ messages # <<>>
    /\ messages[Len(messages)].role = "user"

\* the ways a user interrupt ends chat: while the answer streams, at the
\* confirmation prompt, during a tool call
InterruptEnds == {"stream_interrupt", "keyboard_interrupt", "tool_interrupt"}

\* the log a following chat sends its first request with
FollowingChatLog(log, mode) ==
    TrimNow(TrimNow(Append(EnsureSystemPrompt(log, mode, active_chat_mode), UserMsg(<<"u">>))))

\* C16: whenever a user interrupt ends chat, the log it leaves has no
\* assistant tool_calls entry without its tool message and no tool message
\* without its assistant tool_calls entry before it, and the log a following
\* chat works on still starts with the system message if the log this chat
\* was called with did.
C16_InterruptKeepsPairing ==
    [][(pc # "idle" /\ returned' \in InterruptEnds)
           => /\ Pairing(messages')
              /\ (log0 # <<>> /\ log0[1].role = "system")
                     => \A mode \in {"strict", "loose"} :
                            /\ FollowingChatLog(messages', mode) # <<>>
                            /\ FollowingChatLog(messages', mode)[1].role = "system"]_vars

\* the call at batch[batch_pos] is handed over and raises an exception that is
\* no user interrupt
RaisedStep ==
    /\ pc = "dispatch"
    /\ turn_calls' # <<>>
    /\ Len(turn_calls') = Len(turn_calls) + 1
    /\ turn_calls'[Len(turn_calls')].end = "raised"

C18_NoMetaInLog == \A i \in 1..Len(messages) : messages[i].meta = {}

(***************************************************************************)
(* Tool calls written as DSML text                                         *)
(***************************************************************************)
\* the complete invoke blocks of a text, in its order
RECURSIVE Invocations(_)
Invocations(text) ==
    IF text = <<>> THEN <<>>
    ELSE (IF Head(text) \in CompleteInvokes THEN <<Head(text)>> ELSE <<>>)
         \o Invocations(Tail(text))

\* the tool an invoke block names and the parameters it gives
Invoked(tok) ==
    CASE tok = "<invoke:u>"   -> [name |-> "u", args |-> {<<"q", <<"w">> >>, <<"p", <<"v">> >>}]
      [] tok = "<invoke:dup>" -> [name |-> "t", args |-> {<<"p", <<"v">> >>}]
      [] OTHER                -> [name |-> "t", args |-> {<<"p", <<"v">> >>}]

\* the arguments of a call as pairs of key and text
ArgPairs(tc) ==
    {<<ParseToolArguments(tc)[i].key, ParseToolArguments(tc)[i].val.text>> :
        i \in 1..Len(ParseToolArguments(tc))}

\* the call was synthesized from DSML text
Synthesized(tc) == tc.id # <<>> /\ tc.id[1] = "dsml_"

\* the structured tool calls of the turn that carry a name
Usable(t) == {i \in 1..Len(t.tool_calls) : ~Blank(t.tool_calls[i].name)}

Rejected(s) ==
    \/ s.kind \in {"missing", "other"}
    \/ s.messages = <<>>
    \/ \E i \in 1..Len(s.messages) : s.messages[i] = NonDict

\* C20: load_session of a payload whose messages are missing, not a list,
\* empty, or hold an entry that is not a dict returns False and leaves the
\* log, the model and the summary model as they were; no prefix of the
\* payload is loaded.
C20_RejectedWholesale ==
    [][\A s \in SessionUniverse :
          LoadSession(s) /\ Rejected(s) =>
              /\ load_ok' = FALSE
              /\ messages' = messages
              /\ model' = model
              /\ summary_model' = summary_model]_vars

\* a session that names the model "n" was loaded, and a rejected payload
\* after it left its log and both model names in place
C20_Witness ==
    /\ phase = "loaded"
    /\ load_ok = FALSE
    /\ messages = <<SystemMsg(<<"L">>), UserMsg(<<"u">>), AssistantMsg(<<"x">>, <<>>, <<>>)>>
    /\ model = <<"n">>
    /\ summary_model = <<"m">>

(***************************************************************************)
(* Export and import of a session                                          *)
(***************************************************************************)
\* the model names of an analyzer that is constructed to import a session
OtherModel == <<"z">>

\* C21: in every state chats and resets reach, load_session(export_session())
\* succeeds and gives a log equal to the exported one, message for message,
\* with the same model and summary model, and the imported log starts with
\* the system message and pairs every tool message with an assistant
\* tool_calls entry and every entry with a tool message.
C21_RoundTrip ==
    pc = "idle" =>
        LET s == ExportSession(messages, model, summary_model)
            imported == IF LoadAccepts(s) THEN s.messages ELSE <<>>
        IN  /\ LoadAccepts(s)
            /\ imported = messages
            /\ SessionModel(s.model, OtherModel) = model
            /\ SessionModel(s.summary_model, OtherModel) = summary_model
            /\ imported[1].role = "system"
            /\ Pairing(imported)

(***************************************************************************)
(* The policy for dangerous termux_command calls                           *)
(***************************************************************************)
\* chat is at a termux_command call that passed validation
AtCommand ==
    /\ pc = "dispatch"
    /\ NameStr(batch[batch_pos].name) = "termux_command"
    /\ CallVerdict(batch[batch_pos]) = NoError

\* the command of that call is one the guard flags
Flagged == InSeq("rm", CommandOf(ParseToolArguments(batch[batch_pos])))

\* the step blocks the call: it is tallied as recoverable, nothing is called
BlockedStep == recoverable_errors' = recoverable_errors + 1 /\ turn_calls' = turn_calls

\* the step hands the call to the bridge
ExecutedStep ==
    \/ /\ Len(turn_calls') = Len(turn_calls) + 1
       /\ turn_calls'[Len(turn_calls')].tc = batch[batch_pos]
       /\ turn_calls'[Len(turn_calls')].via = "bridge"
    \/ returned' \in {"halt", "tool_interrupt"}

\* the step is an interrupt at the confirmation prompt
PromptStep == returned' = "keyboard_interrupt"

\* C22: for a termux_command call in chat, under policy off no command is
\* blocked and no confirmation is asked; under policy deny every flagged
\* command is blocked without asking; under policy confirm a flagged command
\* is asked about and is executed if and only if the answer is y; a command
\* that is not flagged is executed under every policy.
C22_PolicyDecides ==
    /\ [](AtCommand =>
            /\ Asks(batch[batch_pos], dangerous_policy)
                   <=> (dangerous_policy = "confirm" /\ Flagged)
            /\ \A yn \in {"y", "n"} :
                   Route(batch[batch_pos], dangerous_policy, yn) =
                       IF Flagged /\ dangerous_policy = "deny" THEN "declined"
                       ELSE IF Flagged /\ dangerous_policy = "confirm" /\ yn # "y" THEN "declined"
                       ELSE "bridge")
    /\ [][AtCommand =>
            /\ BlockedStep \/ ExecutedStep \/ PromptStep
            /\ (dangerous_policy = "off" \/ ~Flagged) => ExecutedStep
            /\ (dangerous_policy = "deny" /\ Flagged) => BlockedStep
            /\ PromptStep => (dangerous_policy = "confirm" /\ Flagged)]_vars

\* under policy confirm a flagged command went to the bridge
C22_Witness ==
    /\ dangerous_policy = "confirm"
    /\ turn_calls # <<>>
    /\ NameStr(turn_calls[1].tc.name) = "termux_command"
    /\ InSeq("rm", CommandOf(ParseToolArguments(turn_calls[1].tc)))
    /\ turn_calls[1].via = "bridge"

(***************************************************************************)
(* The guard and the operator's regexes                                    *)
(***************************************************************************)
\* the regex is configured, compiles and matches the text
Hits(regex, text) ==
    \/ regex.kind = "any"
    \/ regex.kind = "word" /\ \E j \in 1..Len(text) : Lower(text[j]) = Lower(regex.word)

\* the command holds a piece of text the built-in patterns flag
BuiltinFlags(text) == \E j \in 1..Len(text) : text[j] \in {"rm", "RM", "reboot"}

\* C23: a command that matches the operator's deny regex is always flagged; a
\* command that matches the allow regex and not the deny regex is not
\* flagged; for every other command the built-in classification applies,
\* which flags `rm -rf` with the reason "rm -rf" and is the same under every
\* policy.
C23_GuardVerdict ==
    phase = "guarded" =>
        LET cmd == CommandOf(call.args)
            denied == Hits(dangerous_extra_deny_regex, cmd)
            allowed == Hits(dangerous_allow_regex, cmd)
        IN  /\ denied => verdict.danger
            /\ (allowed /\ ~denied) => verdict = Verdict(FALSE, "")
            /\ (~allowed /\ ~denied) =>
                   /\ verdict = IsDangerousTermuxCommand(cmd)
                   /\ verdict.danger <=> BuiltinFlags(cmd)
                   /\ (\E j \in 1..Len(cmd) : cmd[j] \in {"rm", "RM"}) => verdict.reason = "rm -rf"

\* under policy off a command with `rm -rf` that matches both the allow and
\* the deny regex was flagged
C23_Witness ==
    /\ phase = "guarded"
    /\ dangerous_policy = "off"
    /\ CommandOf(call.args) = <<"RM", "ls">>
    /\ dangerous_allow_regex = WordRegex("LS")
    /\ dangerous_extra_deny_regex = WordRegex("rm")
    /\ verdict = Verdict(TRUE, "rm -rf")

(***************************************************************************)
(* The retry loop of the bridge                                            *)
(***************************************************************************)
\* the attempt ended in a failure of a kind the loop handles: an exception
\* of requests for the transport or the status, or a body that is no JSON
Failed(o) == o.kind \in {"timeout", "connection", "http", "invalid_json"}

\* the pauses of an RPC whose first n attempts failed and were followed by
\* another attempt: 0.4 s, then 0.8 s
Pauses(n) == SubSeq(<<4, 8>>, 1, n)

\* C24: an RPC makes at most 3 HTTP attempts; it stops at the first attempt
\* that yields a parseable response, waits 0.4 s after the first failure and
\* 0.8 s after the second, and raises the failure after the third failed
\* attempt (a failure is one the loop handles; an exception it does not
\* handle leaves _rpc at once); all attempts of one RPC carry the same
\* request id and payload, and the request id grows by exactly one per RPC
\* whatever the number of attempts.
C24_RetrySchedule ==
    /\ [](/\ Len(posts) <= 3
          /\ Len(posts) = Len(tried)
          /\ \A i \in 1..Len(posts) : posts[i] = body
          /\ \A i \in 1..Len(tried) : tried[i].kind \in {"ok", "rpc_error"} => i = Len(tried)
          /\ \A i \in 1..Len(tried) : i < Len(tried) => Failed(tried[i])
          /\ rpc_pc = "post" => slept = Pauses(Len(tried))
          /\ (rpc_pc = "idle" /\ tried # <<>>) =>
                 /\ slept = Pauses(Len(tried) - 1)
                 /\ Failed(tried[Len(tried)]) => (Len(tried) = 3 /\ rpc_result = "raised")
                 /\ tried[Len(tried)].kind = "ok" => rpc_result = "returned"
          /\ body # NoBody => body.id = req_id - 1)
    /\ [][req_id' = IF rpc_pc = "idle" /\ rpc_pc' = "post" THEN req_id + 1 ELSE req_id]_vars

\* the second RPC of the client returned at its third attempt, after pauses
\* of 0.4 s and 0.8 s, each attempt with request id 2
C24_Witness ==
    /\ rpc_pc = "idle"
    /\ rpc_result = "returned"
    /\ Len(posts) = 3
    /\ \A i \in 1..3 : posts[i].id = 2
    /\ slept = <<4, 8>>
    /\ req_id = 3

\* C25: an RPC is attempted again only after a timeout, a connection error
\* or one of the statuses 408, 429, 502, 503, 504; every other failure
\* (another HTTP error status, a JSON-RPC error object) ends the RPC after a
\* single attempt.
C25_RetryOnlyTransient ==
    \A i \in 1..Len(tried) :
        i < Len(tried) =>
            \/ tried[i].kind \in {"timeout", "connection"}
            \/ tried[i].kind = "http" /\ tried[i].status \in {408, 429, 502, 503, 504}

(***************************************************************************)
(* The count phase of _trim_messages                                       *)
(***************************************************************************)
\* the last n messages of a log
LastOf(log, n) == SubSeq(log, Len(log) - n + 1, Len(log))

\* the character ceiling leaves the log of the count phase alone
CharPhaseIdle == LogSize(CountPhase(Sanitize(logIn), max_context_messages)) <= max_context_chars

\* C26: for every message ceiling M >= 1, when the sanitized log has more
\* than M messages (and the character ceiling removes nothing),
\* _trim_messages leaves at most M messages: message 0 followed by the last
\* M-1 messages of the sanitized log without the tool messages that tail
\* starts with.
C26_CountPhaseKeepsLastM ==
    (/\ phase = "trimmed"
     /\ max_context_messages >= 1
     /\ Len(Sanitize(logIn)) > max_context_messages
     /\ CharPhaseIdle)
        => /\ Len(messages) <= max_context_messages
           /\ messages = <<Sanitize(logIn)[1]>>
                             \o DropLeadingTools(LastOf(Sanitize(logIn), max_context_messages - 1))

(***************************************************************************)
(* The decision table for a turn without tool calls                        *)
(***************************************************************************)
\* what the turn shows of each condition the table tests
Leaks(t) == ContainsDsml(Combined(t))
Truncated(t) == t.finish_reason = "length"
NoTerminalSignal(t) == t.finish_reason = "" /\ Combined(t) # <<>>
AnswerNotStarted(t) == ~t.answer_started /\ Combined(t) # <<>>
ReasoningOnly(t) == Blank(t.content) /\ ~Blank(t.reasoning_content)
VerbalPlan(t) == strict_mode /\ InSeq("call:", Combined(t)) /\ ~InSeq("##report", Combined(t))
TrailingPrompt(t) == EndsWithR2Prompt(Combined(t))
MissingReport(t) == strict_mode /\ ~InSeq("##report", Strip(t.content))

\* the six rules as listed, each with the instructions that belong to it;
\* "reasoning without visible answer" covers both the answer that never
\* started and the blank answer next to reasoning
ListedRules(t) ==
    << [hit |-> Leaks(t),                                 says |-> {"dsml_leak"}],
       [hit |-> Truncated(t),                             says |-> {"length"}],
       [hit |-> NoTerminalSignal(t),                      says |-> {"no_finish"}],
       [hit |-> AnswerNotStarted(t) \/ ReasoningOnly(t),  says |-> {"not_started", "reasoning_only"}],
       [hit |-> VerbalPlan(t),                            says |-> {"missing_tool_call"}],
       [hit |-> MissingReport(t),                         says |-> {"no_final_markdown"}] >>

\* the eight rules in the order chat tests them
TestedRules(t) ==
    << [hit |-> Leaks(t),             says |-> {"dsml_leak"}],
       [hit |-> Truncated(t),         says |-> {"length"}],
       [hit |-> NoTerminalSignal(t),  says |-> {"no_finish"}],
       [hit |-> AnswerNotStarted(t),  says |-> {"not_started"}],
       [hit |-> VerbalPlan(t),        says |-> {"missing_tool_call"}],
       [hit |-> ReasoningOnly(t),     says |-> {"reasoning_only"}],
       [hit |-> TrailingPrompt(t),    says |-> {"r2_prompt"}],
       [hit |-> MissingReport(t),     says |-> {"no_final_markdown"}] >>

\* the rules of a table the turn matches
Matching(rules) == {i \in 1..Len(rules) : rules[i].hit}

\* the instructions of the highest-priority matching rule
Prescribed(rules) ==
    IF Matching(rules) = {} THEN {}
    ELSE rules[CHOOSE i \in Matching(rules) : \A j \in Matching(rules) : i <= j].says

\* the step appends the assistant turn and then one user message carrying one
\* of the instructions, and adds one to missing_tool_retry
InjectsOneOf(t, instructions) ==
    /\ missing_tool_retry' = missing_tool_retry + 1
    /\ Len(messages') >= 2
    /\ messages'[Len(messages') - 1] = HistoryMsg(t)
    /\ \E r \in instructions : messages'[Len(messages')] = UserMsg(<<r>>)
    /\ Len(messages') <= Len(messages) + 2
    /\ ~cut' => messages' = Sanitize(messages) \o <<HistoryMsg(t), messages'[Len(messages')]>>

\* C27 as stated: a turn without tool calls that matches rules of the
\* six-rule table gets exactly one corrective instruction, that of the first
\* matching rule in the order leakage, truncation, no terminal signal,
\* reasoning without visible answer, strict verbal plan, strict missing
\* report; the injection appends the assistant turn, then one user message,
\* and adds one to the counter.
C27_ListedPriority ==
    [][\A t \in TurnUniverse :
           (RetryTurn(t) /\ Matching(ListedRules(t)) # {})
               => InjectsOneOf(t, Prescribed(ListedRules(t)))]_vars

\* C27 (amended): while missing_tool_retry is below 6, a turn without tool
\* calls is sent back exactly when it matches a rule of the eight-rule table,
\* with the instruction of the first matching rule in the order leakage,
\* truncation, no terminal signal, answer not started, strict verbal plan,
\* blank answer next to reasoning, trailing r2> prompt, strict missing
\* report; the injection appends the assistant turn, then one user message,
\* and adds one to the counter.
C27_TestedPriority ==
    [][\A t \in TurnUniverse :
           /\ RetryTurn(t) => /\ Matching(TestedRules(t)) # {}
                              /\ InjectsOneOf(t, Prescribed(TestedRules(t)))
           /\ (FinalTurn(t) /\ missing_tool_retry < max_missing_tool_retry)
                  => Matching(TestedRules(t)) = {}]_vars

\* a strict chat answered a blank answer next to reasoning that names a tool
\* with the verbal-plan instruction
C27_Witness ==
    /\ active_chat_mode = "strict"
    /\ pc = "loop"
    /\ Len(messages) >= 2
    /\ messages[Len(messages) - 1] = AssistantMsg(<<" ">>, <<"call:">>, <<>>)
    /\ messages[Len(messages)] = UserMsg(<<"missing_tool_call">>)

(***************************************************************************)
(* The prompts after a tool batch                                          *)
(***************************************************************************)
\* the calls of the batch that validation rejected
RejectedCalls == {i \in 1..Len(batch) : Invalid(batch[i])}

\* some call of the batch was handed on and succeeded
SomeSucceeded == \E i \in 1..Len(turn_calls) : turn_calls[i].end = "ok"

\* the step past the batch injects the given prompt, once
InjectsPrompt(prompt) ==
    /\ messages' # messages
    /\ messages'[Len(messages')] = UserMsg(<<prompt>>)
    /\ Len(messages') <= Len(messages) + 1

\* C28 as stated: past a batch the validation prompt is injected, once,
\* exactly when every call of the batch failed validation and
\* bad_validation_retry is below 4; a batch with a call validation did not
\* reject never triggers it.
C28_AllRejected ==
    [][pc = "after_batch" =>
          (InjectsPrompt("fix_arguments")
               <=> (RejectedCalls = 1..Len(batch) /\ bad_validation_retry < 4))]_vars

\* C28 (amended): past a batch the validation prompt is injected, once and
\* with one added to bad_validation_retry, exactly when some call of the
\* batch failed validation, no call of the batch succeeded and
\* bad_validation_retry is below 4; a batch with a successful call never
\* triggers it; the counter goes back to zero past a batch with a successful
\* call that no prompt follows, and only there.
C28_RejectedAndNoSuccess ==
    [][pc = "after_batch" =>
          /\ InjectsPrompt("fix_arguments")
                 <=> (RejectedCalls # {} /\ ~SomeSucceeded /\ bad_validation_retry < 4)
          /\ bad_validation_retry' =
                 IF InjectsPrompt("fix_arguments") THEN bad_validation_retry + 1
                 ELSE IF SomeSucceeded /\ messages' = messages THEN 0
                 ELSE bad_validation_retry]_vars

\* the validation prompt follows a batch of which validation rejected the
\* first call and passed the second
C28_Witness ==
    /\ pc = "loop"
    /\ Len(batch) = 2
    /\ RejectedCalls = {1}
    /\ bad_validation_retry = 1
    /\ messages[Len(messages)] = UserMsg(<<"fix_arguments">>)


\* some call of the batch was handed on and returned a recoverable error
SomeRecoverable == \E i \in 1..Len(turn_calls) : turn_calls[i].end = "recoverable"

\* what the step past a batch with a recoverable error does: the narrow
\* prompt under recoverable_hint_retry after a success, the broad prompt
\* under recoverable_retry without one, neither once the counter stands at
\* its ceiling; a step that counts under one counter leaves the other alone
RecoverablePrompts ==
    /\ (SomeSucceeded /\ recoverable_hint_retry < max_recoverable_hint_retry)
           => /\ InjectsPrompt("retry_failed_only")
              /\ recoverable_hint_retry' = recoverable_hint_retry + 1
              /\ recoverable_retry' = recoverable_retry
    /\ (SomeSucceeded /\ recoverable_hint_retry >= max_recoverable_hint_retry)
           => /\ messages' = messages
              /\ recoverable_hint_retry' = recoverable_hint_retry
              /\ recoverable_retry' = recoverable_retry
    /\ (~SomeSucceeded /\ recoverable_retry < max_recoverable_retry)
           => /\ InjectsPrompt("repair_and_resend")
              /\ recoverable_retry' = recoverable_retry + 1
              /\ recoverable_hint_retry' = recoverable_hint_retry
    /\ (~SomeSucceeded /\ recoverable_retry >= max_recoverable_retry)
           => /\ ~InjectsPrompt("repair_and_resend")
              /\ recoverable_retry' = recoverable_retry
              /\ recoverable_hint_retry' = recoverable_hint_retry

\* C29 as stated: past a batch with a recoverable error the narrow prompt is
\* injected under its own counter when some call succeeded and the broad one
\* under another counter when none did, neither at its counter's ceiling,
\* and the ceiling of the counter for the narrow prompt is the smaller one.
C29_HintCeilingSmaller ==
    [][(pc = "after_batch" /\ SomeRecoverable)
           => /\ RecoverablePrompts
              /\ max_recoverable_hint_retry < max_recoverable_retry]_vars

\* C29 (amended): the same for a batch without a call that failed
\* validation, the ceiling of the counter for the narrow prompt (6) being
\* the larger one (the other is 4); past a batch with a recoverable error
\* and a call that failed validation neither prompt is injected.
C29_HintCeilingLarger ==
    [][(pc = "after_batch" /\ SomeRecoverable)
           => /\ RejectedCalls = {} => RecoverablePrompts
              /\ RejectedCalls # {} => /\ ~InjectsPrompt("retry_failed_only")
                                       /\ ~InjectsPrompt("repair_and_resend")
                                       /\ recoverable_retry' = recoverable_retry
                                       /\ recoverable_hint_retry' = recoverable_hint_retry
              /\ max_recoverable_retry = 4
              /\ max_recoverable_hint_retry = 6]_vars

\* six narrow prompts have been injected and a further batch with a success
\* and a recoverable error passed without a prompt, the other counter unused
C29_Witness ==
    /\ profile = "partial"
    /\ pc = "loop"
    /\ turns >= 7
    /\ recoverable_hint_retry = 6
    /\ recoverable_retry = 0
    /\ messages[Len(messages)].role # "user"


(***************************************************************************)
(* The count of fatal errors                                               *)
(***************************************************************************)
\* C30: the count that triggers the abort is carried across the turns of a
\* chat and set to zero by every tool call that does not end in a fatal
\* error (a success, a recoverable error, a call validation rejected), so a
\* chat is aborted only when its four most recent tool outcomes were all
\* fatal errors.
C30_AbortOnlyAfterFourInARow ==
    /\ returned = "halt" => fatal_run >= 4
    /\ (pc \in {"dispatch", "after_batch", "loop", "await"}) => errors = fatal_run


(***************************************************************************)
(* What trimming keeps                                                     *)
(***************************************************************************)
\* the log ends with the given messages
EndsWith(log, end) ==
    /\ Len(end) <= Len(log)
    /\ SubSeq(log, Len(log) - Len(end) + 1, Len(log)) = end

\* C31: for every message ceiling M >= 2 and every character ceiling,
\* _trim_messages keeps the most recent atomic block of the sanitized log
\* whole, and so never removes the last message of the log.
C31_KeepsLastBlock ==
    (/\ phase = "trimmed"
     /\ max_context_messages >= 2
     /\ Len(Sanitize(logIn)) >= 2)
        => /\ EndsWith(messages, LastBlock(Sanitize(logIn)))
           /\ messages[Len(messages)] = Sanitize(logIn)[Len(Sanitize(logIn))]


\* the messages of a log from position k on
From(log, k) == SubSeq(log, k, Len(log))

\* position k of a log lies inside an atomic block: the message there is a
\* tool message, or it is not there and message 0 opens a block
Splits(log, k) ==
    \/ k <= Len(log) /\ log[k].role = "tool"
    \/ k > 2 /\ log[1].role = "assistant" /\ log[1].tool_calls # <<>> /\ log[2].role = "tool"

\* C32: the log after _trim_messages is message 0 followed by the sanitized
\* log from some position on, nothing removed in between, and that position
\* is not inside an atomic block: an assistant message with tool_calls stays
\* with all of its tool messages or goes with all of them.
C32_SuffixOfWholeBlocks ==
    (phase = "trimmed" /\ Sanitize(logIn) # <<>>)
        => \E k \in 2..(Len(Sanitize(logIn)) + 1) :
              /\ messages = <<Sanitize(logIn)[1]>> \o From(Sanitize(logIn), k)
              /\ ~Splits(Sanitize(logIn), k)


\* C33: for every log and every pair of ceilings the log _trim_messages
\* leaves is a fixed point of _sanitize_messages_for_tools: no trimming
\* phase leaves a tool_calls entry whose tool message it removed.
C33_TrimmedIsSanitized == phase = "trimmed" => Sanitize(messages) = messages


(***************************************************************************)
(* Answers after sanitize                                                  *)
(***************************************************************************)
\* the tool messages with the given id (surrounding blanks aside) in the run
\* directly after message i
AnswersIn(log, i, id) ==
    {q \in (i + 1)..(RunEnd(log, i + 1) - 1) : Strip(log[q].tool_call_id) = Strip(id)}

\* C34: after sanitize every id that remains in an assistant message's
\* tool_calls has exactly one tool message with that tool_call_id in the run
\* directly after the assistant message; a second tool message that repeats
\* an answered id is not retained.
C34_ExactlyOneAnswer ==
    phase = "sanitized" =>
        \A i \in 1..Len(messages) :
            \A id \in ToolCallIds(messages[i]) :
                Cardinality(AnswersIn(messages, i, id)) = 1

(***************************************************************************)
(* _stream_assistant_turn (lines 855-1020).  A text is a sequence of       *)
(* characters; "|DSML|" stands for the six characters that follow the "<"  *)
(* of a marker and "w47" for a run of 47 plain characters.                 *)
(***************************************************************************)
MaxTextLen == 3
MaxDeltas == 3

\* line 886
buffer_limit == 48

Alphabet == {"x", " ", "\n", "<", "/", "|DSML|", "w47"}

\* the characters a symbol stands for
Width(sym) == IF sym = "w47" THEN 47 ELSE IF sym = "|DSML|" THEN 6 ELSE 1

\* len(text)
RECURSIVE TextLen(_)
TextLen(text) == IF text = <<>> THEN 0 ELSE Width(Head(text)) + TextLen(Tail(text))

\* "\n" in text
HasNewline(text) == InSeq("\n", text)

\* text.lstrip().startswith("<")
StartsWithLt(text) ==
    /\ LStrip(text) # <<>>
    /\ Head(LStrip(text)) \in {"<", "<dsml>"} \cup CompleteInvokes \cup OpenInvokes

\* a chunk of the stream: choices[0].finish_reason and choices[0].delta
Chunk(finish_reason, reasoning, content, deltas) ==
    [choices |-> TRUE, finish_reason |-> finish_reason, reasoning_content |-> reasoning,
     content |-> content, tool_calls |-> deltas]

\* a chunk whose choices list is empty
NoChoices ==
    [choices |-> FALSE, finish_reason |-> "", reasoning_content |-> <<>>,
     content |-> <<>>, tool_calls |-> <<>>]

\* an entry of delta.tool_calls; index <<>> is None, fn FALSE is function None
Delta(index, id, fn, name, args) ==
    [index |-> index, id |-> id, fn |-> fn, name |-> name, arguments |-> args]

\* line 551
DeltaIndex(tc) == IF tc.index = <<>> THEN 0 ELSE tc.index[1]

\* line 553
Placeholder == ToolCall(<<>>, <<>>, <<>>)

\* lines 552-553
Padded(acc, idx) ==
    IF Len(acc) > idx THEN acc
    ELSE acc \o [k \in 1..(idx + 1 - Len(acc)) |-> Placeholder]

\* MergedItem that keeps the latest argument fragment only
MergedItemLastArgs(item, tc) ==
    [id        |-> IF tc.id # <<>> THEN tc.id ELSE item.id,
     name      |-> IF tc.fn /\ tc.name # <<>> THEN tc.name ELSE item.name,
     arguments |-> IF tc.fn /\ tc.arguments # <<>> THEN tc.arguments ELSE item.arguments]

\* lines 554-563
MergedItem(item, tc) ==
    [id        |-> IF tc.id # <<>> THEN tc.id ELSE item.id,
     name      |-> IF tc.fn /\ tc.name # <<>> THEN tc.name ELSE item.name,
     arguments |-> IF tc.fn THEN item.arguments \o tc.arguments ELSE item.arguments]

\* _merge_delta_tool_calls(delta_tool_calls, tool_calls_acc)
RECURSIVE MergeDeltaToolCalls(_, _)
MergeDeltaToolCalls(deltas, acc) ==
    IF deltas = <<>> THEN acc
    ELSE LET tc     == Head(deltas)
             idx    == DeltaIndex(tc)
             padded == Padded(acc, idx)
         IN  MergeDeltaToolCalls(Tail(deltas),
                                 [padded EXCEPT ![idx + 1] = MergedItem(padded[idx + 1], tc)])

\* line 946
BufferLeaks(buf) == ContainsDsml(buf) /\ StartsWithLt(buf)

\* line 949
BufferReady(buf) ==
    HasNewline(buf) \/ TextLen(buf) >= buffer_limit \/ ~StartsWithLt(buf)

\* Suppressed that forgets the marker once the fragment is over
SuppressedThisFragmentOnly(c) ==
    /\ c # <<>>
    /\ IF started THEN ContainsDsml(c) ELSE BufferLeaks(answer_buffer \o c)

\* suppress_answer_output after the content fragment c (lines 942-974)
Suppressed(c) ==
    \/ suppress_answer_output
    \/ /\ c # <<>>
       /\ IF started THEN ContainsDsml(c) ELSE BufferLeaks(answer_buffer \o c)

\* the buffer is written out by the content fragment c (lines 949-966)
Flushes(c) ==
    /\ c # <<>>
    /\ ~suppress_answer_output
    /\ ~started
    /\ ~BufferLeaks(answer_buffer \o c)
    /\ BufferReady(answer_buffer \o c)

\* msg["content"] after the content fragment c (lines 965, 973)
Visible(c) ==
    IF c = <<>> \/ suppress_answer_output THEN msg_content
    ELSE IF started THEN (IF ContainsDsml(c) THEN msg_content ELSE msg_content \o c)
    ELSE IF Flushes(c) THEN msg_content \o answer_buffer \o c
    ELSE msg_content

\* answer_buffer after the content fragment c (lines 944, 948, 966)
Buffered(c) ==
    IF c = <<>> \/ suppress_answer_output \/ started THEN answer_buffer
    ELSE IF BufferLeaks(answer_buffer \o c) \/ Flushes(c) THEN <<>>
    ELSE answer_buffer \o c

\* texts of at most n characters
Texts(n) == UNION {[1..k -> Alphabet] : k \in 0..n}

\* the pieces of seq when it is cut after each position of cuts
RECURSIVE Split(_, _)
Split(seq, cuts) ==
    IF seq = <<>> THEN <<>>
    ELSE LET first == IF cuts = {} THEN Len(seq)
                      ELSE CHOOSE k \in cuts : \A q \in cuts : k <= q
         IN  <<SubSeq(seq, 1, first)>>
             \o Split(SubSeq(seq, first + 1, Len(seq)), {q - first : q \in cuts \ {first}})

Fragmentations(seq) == {Split(seq, cuts) : cuts \in SUBSET (1..(Len(seq) - 1))}

\* a turn's answer text in fragments, with or without a terminal signal
ContentStreams ==
    { [k \in 1..Len(parts) |-> Chunk("", <<>>, parts[k], <<>>)] \o fin :
        parts \in UNION {Fragmentations(t) : t \in Texts(MaxTextLen)},
        fin \in {<<>>, <<Chunk("stop", <<>>, <<>>, <<>>)>>} }

DeltaUniverse ==
    { Delta(<<0>>, IdA, TRUE, NameT, <<>>),
      Delta(<<0>>, <<>>, TRUE, <<>>, <<"p">>),
      Delta(<<>>, <<>>, TRUE, <<>>, <<"q">>),
      Delta(<<1>>, IdB, TRUE, NameT, <<>>),
      Delta(<<1>>, <<>>, TRUE, <<>>, <<"p">>),
      Delta(<<1>>, IdB, TRUE, <<>>, <<"q">>),
      Delta(<<0>>, <<"c">>, TRUE, <<"u">>, <<>>),
      Delta(<<0>>, IdA, FALSE, <<>>, <<>>) }

DeltaSeqs == UNION {[1..k -> DeltaUniverse] : k \in 1..MaxDeltas}

\* tool-call fragments, one or more to a chunk
DeltaStreams ==
    { [k \in 1..Len(parts) |-> Chunk("", <<>>, <<>>, parts[k])]
        \o <<Chunk("tool_calls", <<>>, <<>>, <<>>)>> :
        parts \in UNION {Fragmentations(ds) : ds \in DeltaSeqs} }

\* chunks that carry several things at once
MixedStreams ==
    { <<NoChoices, Chunk("", <<"r">>, <<>>, <<>>), Chunk("stop", <<>>, <<"x">>, <<>>)>>,
      <<Chunk("", <<"r">>, <<"<">>, <<Delta(<<0>>, IdA, TRUE, NameT, <<"p">>)>>),
        Chunk("", <<"r">>, <<"|DSML|">>, <<Delta(<<0>>, <<>>, TRUE, <<>>, <<"q">>)>>),
        NoChoices,
        Chunk("tool_calls", <<>>, <<"x">>, <<>>)>>,
      <<Chunk("length", <<>>, <<"x">>, <<>>), Chunk("", <<>>, <<"x">>, <<>>)>>,
      <<Chunk("", <<"r">>, <<>>, <<>>), Chunk("", <<"r">>, <<>>, <<>>)>> }

StreamUniverse == ContentStreams \cup DeltaStreams \cup MixedStreams

\* lines 876-887
StreamOpen ==
    /\ stream_pc = "idle"
    /\ chunks' \in StreamUniverse
    /\ stream_pc' = "streaming"
    /\ chunk_pos' = 0
    /\ started' = FALSE
    /\ thinking_started' = FALSE
    /\ suppress_answer_output' = FALSE
    /\ answer_buffer' = <<>>
    /\ msg_content' = <<>>
    /\ msg_reasoning' = <<>>
    /\ raw_content' = <<>>
    /\ last_finish_reason' = ""
    /\ tool_calls_acc' = <<>>
    /\ suppressed_at' = 0
    /\ UNCHANGED <<logVars, valVars, analyzerVars, rpcVars>>

\* one pass of the loop (lines 927-975)
StreamChunk ==
    /\ stream_pc = "streaming"
    /\ chunk_pos < Len(chunks)
    /\ chunk_pos' = chunk_pos + 1
    /\ LET ch == chunks[chunk_pos + 1]
           c  == ch.content
       IN  IF ~ch.choices
           THEN UNCHANGED <<started, thinking_started, suppress_answer_output, answer_buffer,
                            msg_content, msg_reasoning, raw_content, last_finish_reason,
                            tool_calls_acc, suppressed_at>>
           ELSE /\ last_finish_reason' =
                       IF ch.finish_reason # "" THEN ch.finish_reason ELSE last_finish_reason
                /\ thinking_started' = (thinking_started \/ ch.reasoning_content # <<>>)
                /\ msg_reasoning' = msg_reasoning \o ch.reasoning_content
                /\ raw_content' = raw_content \o c
                /\ suppress_answer_output' = Suppressed(c)
                /\ suppressed_at' = IF ~suppress_answer_output /\ Suppressed(c)
                                    THEN chunk_pos + 1 ELSE suppressed_at
                /\ started' = (started \/ Flushes(c))
                /\ msg_content' = Visible(c)
                /\ answer_buffer' = Buffered(c)
                /\ tool_calls_acc' = MergeDeltaToolCalls(ch.tool_calls, tool_calls_acc)
    /\ UNCHANGED <<logVars, valVars, analyzerVars, rpcVars, chunks, stream_pc>>

\* the stream raises while it is iterated (lines 976-991)
StreamRaise ==
    /\ stream_pc = "streaming"
    /\ stream_pc' = "raised"
    /\ UNCHANGED <<logVars, valVars, analyzerVars, rpcVars, chunks, chunk_pos, started,
                   thinking_started, suppress_answer_output, answer_buffer, msg_content,
                   msg_reasoning, raw_content, last_finish_reason, tool_calls_acc,
                   suppressed_at>>

\* FinalFlush that drops what is still buffered
FinalFlushDropsBuffer ==
    ~suppress_answer_output /\ ~started /\ HasNewline(answer_buffer)

\* line 992
FinalFlush == ~suppress_answer_output /\ ~started /\ answer_buffer # <<>>

\* the stream is exhausted (lines 992-1020)
StreamReturn ==
    /\ stream_pc = "streaming"
    /\ chunk_pos = Len(chunks)
    /\ stream_pc' = "returned"
    /\ started' = (started \/ FinalFlush)
    /\ msg_content' = IF FinalFlush THEN msg_content \o answer_buffer ELSE msg_content
    /\ UNCHANGED <<logVars, valVars, analyzerVars, rpcVars, chunks, chunk_pos,
                   thinking_started, suppress_answer_output, answer_buffer, msg_reasoning,
                   raw_content, last_finish_reason, tool_calls_acc, suppressed_at>>

\* the message _stream_assistant_turn returns (lines 1011-1020)
Returned ==
    Turn(msg_content, msg_reasoning, raw_content, last_finish_reason, started, tool_calls_acc)

InitStream ==
    /\ messages = <<SystemMsg(<<"s">>)>>
    /\ max_context_messages = MAX_CONTEXT_MESSAGES
    /\ max_context_chars = MAX_CONTEXT_CHARS
    /\ phase = "init"
    /\ logIn = <<>>
    /\ ValIdle
    /\ ChatIdle

NextStream ==
    \/ StreamOpen
    \/ StreamChunk
    \/ StreamRaise
    \/ StreamReturn

SpecStream == InitStream /\ [][NextStream]_vars

\* the content fragments of the first n chunks, in arrival order
RECURSIVE Delivered(_, _)
Delivered(cs, n) ==
    IF n = 0 THEN <<>>
    ELSE Delivered(cs, n - 1) \o (IF cs[n].choices THEN cs[n].content ELSE <<>>)

\* C35: once a marker was detected in a turn the suppression stays until the turn
\* ends: no step taken under suppression, and not the step that sets it, adds to
\* the visible content, while the raw text always holds every content fragment
\* delivered so far, in arrival order.
C35_SuppressionLasts ==
    [][ /\ suppress_answer_output => suppress_answer_output'
        /\ suppress_answer_output' => msg_content' = msg_content
        /\ raw_content' = Delivered(chunks', chunk_pos') ]_vars

C35_Witness ==
    /\ stream_pc = "returned"
    /\ suppressed_at > 0
    /\ \E k \in (suppressed_at + 1)..Len(chunks) : chunks[k].content # <<>>
    /\ msg_content # raw_content

\* C36: however a turn's answer text is cut into fragments, the visible content
\* of the finished turn holds no marker.
C36_NoMarkerInVisibleContent ==
    stream_pc = "returned" => ~ContainsDsml(msg_content)

\* the tool-call fragments of the first n chunks, in arrival order
RECURSIVE DeltasDelivered(_, _)
DeltasDelivered(cs, n) ==
    IF n = 0 THEN <<>>
    ELSE DeltasDelivered(cs, n - 1) \o (IF cs[n].choices THEN cs[n].tool_calls ELSE <<>>)

\* the fragments of ds that belong to index i, in arrival order
OfIndex(ds, i) == FilterSeq(ds, {k \in 1..Len(ds) : DeltaIndex(ds[k]) = i})

\* the argument fragments of ds, joined
RECURSIVE JoinedArgs(_)
JoinedArgs(ds) ==
    IF ds = <<>> THEN <<>>
    ELSE (IF Head(ds).fn THEN Head(ds).arguments ELSE <<>>) \o JoinedArgs(Tail(ds))

\* the id ds delivers (<<>> if it delivers none)
RECURSIVE DeliveredId(_)
DeliveredId(ds) ==
    IF ds = <<>> THEN <<>>
    ELSE LET tc == ds[Len(ds)]
         IN  IF tc.id # <<>> THEN tc.id ELSE DeliveredId(SubSeq(ds, 1, Len(ds) - 1))

\* the name ds delivers (<<>> if it delivers none)
RECURSIVE DeliveredName(_)
DeliveredName(ds) ==
    IF ds = <<>> THEN <<>>
    ELSE LET tc == ds[Len(ds)]
         IN  IF tc.fn /\ tc.name # <<>> THEN tc.name
             ELSE DeliveredName(SubSeq(ds, 1, Len(ds) - 1))

NamesOf(tcs) == [k \in 1..Len(tcs) |-> tcs[k].name]

\* C37: tool-call fragments are merged by index, however the indexes interleave:
\* the list has one entry per index up to the highest one delivered, in index
\* order; the entry of an index holds that index's argument fragments joined in
\* arrival order and the id and the name delivered for it; an index that received
\* no name is not among the calls that are dispatched.
C37_MergedByIndex ==
    LET ds == DeltasDelivered(chunks, chunk_pos)
    IN  /\ \A k \in 1..Len(ds) : DeltaIndex(ds[k]) < Len(tool_calls_acc)
        /\ tool_calls_acc # <<>> =>
               \E k \in 1..Len(ds) : DeltaIndex(ds[k]) = Len(tool_calls_acc) - 1
        /\ \A i \in 0..(Len(tool_calls_acc) - 1) :
               /\ tool_calls_acc[i + 1].arguments = JoinedArgs(OfIndex(ds, i))
               /\ tool_calls_acc[i + 1].id = DeliveredId(OfIndex(ds, i))
               /\ tool_calls_acc[i + 1].name = DeliveredName(OfIndex(ds, i))
        /\ NamesOf(Filtered(tool_calls_acc)) =
               NamesOf(FilterSeq(tool_calls_acc,
                                 {k \in 1..Len(tool_calls_acc) :
                                      DeliveredName(OfIndex(ds, k - 1)) # <<>>}))

C37_Witness ==
    LET ds == DeltasDelivered(chunks, chunk_pos)
    IN  /\ stream_pc = "returned"
        /\ Len(ds) = 3
        /\ DeltaIndex(ds[1]) = 1 /\ DeltaIndex(ds[2]) = 0 /\ DeltaIndex(ds[3]) = 1
        /\ ds[1].arguments # <<>> /\ ds[3].arguments # <<>>
        /\ DeliveredName(OfIndex(ds, 1)) = <<>>
        /\ Len(Filtered(tool_calls_acc)) = 1

IsPrefix(short, long) == Len(short) <= Len(long) /\ SubSeq(long, 1, Len(short)) = short

\* a chunk of cs carries a terminal signal
HasTerminalSignal(cs) == \E k \in 1..Len(cs) : cs[k].choices /\ cs[k].finish_reason # ""

\* C38: for every fragment sequence the returned visible content is a prefix of
\* the raw text, and is the raw text when no marker was detected; answer_started
\* is true exactly when the visible content is non-empty; a stream without a
\* terminal signal gives the empty finish reason.
C38_ReturnedTurn ==
    stream_pc = "returned" =>
        /\ IsPrefix(Returned.content, Returned.raw_content)
        /\ ~suppress_answer_output => Returned.content = Returned.raw_content
        /\ Returned.answer_started <=> Returned.content # <<>>
        /\ ~HasTerminalSignal(chunks) => Returned.finish_reason = ""

C38_Witness ==
    /\ stream_pc = "returned"
    /\ suppress_answer_output
    /\ Returned.answer_started
    /\ Returned.content # Returned.raw_content
    /\ ~HasTerminalSignal(chunks)

\* the call in hand is a termux_command call the guard blocks unless the operator
\* answers y
Guarded ==
    /\ pc = "dispatch"
    /\ CallVerdict(batch[batch_pos]) = NoError
    /\ Declined(batch[batch_pos], dangerous_policy, "n")

\* C39: a termux_command call the guard blocks (policy deny, or policy confirm and
\* an answer other than y) is not handed to the bridge or the wrapper; its result
\* is tallied with the recoverable errors of the batch, and the count of fatal
\* errors is neither raised nor reset, so the call never ends the chat.
C39_BlockedIsRecoverable ==
    [][ ( /\ Guarded
          /\ \/ dangerous_policy = "deny"
             \/ answered' # "y" /\ returned' # "keyboard_interrupt" )
        => /\ turn_calls' = turn_calls
           /\ recoverable_errors' = recoverable_errors + 1
           /\ errors' = errors
           /\ returned' = returned ]_vars

C39_Witness ==
    /\ pc = "after_batch"
    /\ dangerous_policy = "confirm"
    /\ answered = "n"
    /\ CallVerdict(batch[batch_pos - 1]) = NoError
    /\ Declined(batch[batch_pos - 1], dangerous_policy, "n")
    /\ recoverable_errors = 1
    /\ errors = 1

\* C40: at every model request a chat issues, message 0 of the request is the
\* system message and its content is the system prompt of the chat's mode,
\* whatever chats, resets and successful load_session calls came before.
C40_RequestCarriesModePrompt ==
    [][ asked' = asked + 1 =>
            /\ sent' # <<>>
            /\ sent'[1].role = "system"
            /\ sent'[1].content = SystemPrompt(active_chat_mode') ]_vars

=============================================================================
